---- MODULE Spec2Model ----
(***************************************************************************)
(* A model of junction's routing and dispatch engine: the Dispatcher       *)
(* (junction/core/dispatch.py), the RPC clients (junction/core/rpc.py) and *)
(* the peers' message queues, for a small mesh of hubs and one client.     *)
(***************************************************************************)
EXTENDS Integers, Sequences, FiniteSets, TLC

(***************************************************************************)
(* Bounds of the model.                                                    *)
(***************************************************************************)
MaxSubOps == 3      \* add/remove_local_subscription calls in one behaviour
MaxSends == 1       \* publish calls in one behaviour
MaxRpcs == 2        \* rpc calls in one behaviour
MaxDrops == 1       \* connections that go down in one behaviour
MaxWaits == 2       \* wait calls that block in one behaviour
MaxPublishes == 3   \* publish calls in one behaviour of the ordering scenario

Hubs == {"A", "B", "C"}
Clients == {"K"}
Nodes == Hubs \cup Clients

MSG_TYPE_PUBLISH == "PUBLISH"
MSG_TYPE_RPC_REQUEST == "RPC_REQUEST"
Services == {"s1", "s2"}
Methods == {"m1", "m2"}
Masks == 0..1
RoutingIds == 0..1

\* a fixed listing of the (msg_type, service) keys: the iteration order of
\* the subscription dictionaries
KeySeq == << <<MSG_TYPE_PUBLISH, "s1">>, <<MSG_TYPE_PUBLISH, "s2">>,
             <<MSG_TYPE_RPC_REQUEST, "s1">>, <<MSG_TYPE_RPC_REQUEST, "s2">> >>
Keys == {KeySeq[i] : i \in DOMAIN KeySeq}

\* connection (Peer) objects: the one held at node `at` for remote `ident`
\* on socket k of the pair; socket 1 is the one the lower ident dialled,
\* socket 2 the one the higher ident dialled
ConnSerials == {1, 2}
Conn(n, m, k) == [at |-> n, ident |-> m, k |-> k]
Conns == {Conn(n, m, k) : n \in Nodes, m \in Nodes, k \in ConnSerials}
NoConn == [at |-> "-", ident |-> "-", k |-> 0]
Links == Nodes \X Nodes

VARIABLES
    local_subs,     \* [node][key]: list of [mask, value, handlers]
    peer_subs,      \* [node][key]: list of [mask, value, peer]
    peers,          \* [node][ident]: the stored connection, or NoConn
    conn_state,     \* [conn]: "none", "handshaking", "up" or "down"
    established,    \* [conn]: the connection's established event is set
    reconnecting,   \* [node][ident]: the connection in a reconnect loop, or NoConn
    chan,           \* [<<from, to>>]: messages pushed and not yet received
    sched,          \* [node]: handler tasks scheduled and not yet run
    handled,        \* the handler invocations so far, in order
    pubs,           \* the publish calls so far
    result,         \* what the last API call returned or raised
    rpc_counter,    \* [node]: rpc_client.counter
    inflight,       \* [node][counter]: the idents still awaited (a count on a client)
    by_peer,        \* [node][peer]: the counters awaited from that peer
    rpcs,           \* [node][counter]: the live RPC futures
    inflight_proxies,   \* [node][counter]: [awaiting, client_counter, peer]
    waits,          \* [node]: the Wait objects created so far, in order
    n_subops, n_sends, n_drops

subVars == <<local_subs, peer_subs>>
connVars == <<peers, conn_state, established, reconnecting>>
rpcVars == <<rpc_counter, inflight, by_peer, rpcs, inflight_proxies, waits>>
vars == <<local_subs, peer_subs, peers, conn_state, established, reconnecting, chan, sched,
          handled, pubs, result, rpc_counter, inflight, by_peer, rpcs,
          inflight_proxies, waits, n_subops, n_sends, n_drops>>

(***************************************************************************)
(* Integers as bit strings.                                                *)
(***************************************************************************)
RECURSIVE BitAnd(_, _)
BitAnd(a, b) ==
    IF a = 0 \/ b = 0 THEN 0
    ELSE (a % 2) * (b % 2) + 2 * BitAnd(a \div 2, b \div 2)

\* value & ~mask
AndNot(value, mask) == value - BitAnd(value, mask)

Min(S) == CHOOSE x \in S : \A y \in S : x <= y

RECURSIVE RemoveFirst(_, _)
RemoveFirst(s, x) ==
    IF s = <<>> THEN <<>>
    ELSE IF Head(s) = x THEN Tail(s)
    ELSE <<Head(s)>> \o RemoveFirst(Tail(s), x)

\* del group[i] has no effect
RemoveAt_none(s, i) == s

RemoveAt(s, i) == SubSeq(s, 1, i - 1) \o SubSeq(s, i + 1, Len(s))

SelectSeqIdx(s, Test(_)) ==
    LET F[i \in 0..Len(s)] ==
            IF i = 0 THEN <<>>
            ELSE IF Test(i) THEN Append(F[i - 1], s[i]) ELSE F[i - 1]
    IN F[Len(s)]

(***************************************************************************)
(* Peer connections (push, up).                                            *)
(***************************************************************************)
IsUp(c) == c # NoConn /\ conn_state[c] = "up"

\* Peer.push: the message joins the connection's outbound queue
push(ch, c, msg) ==
    IF IsUp(c) THEN [ch EXCEPT ![<<c.at, c.ident>>] = Append(@, msg)] ELSE ch

RECURSIVE push_all(_, _, _)
push_all(ch, cs, msg) ==
    IF cs = <<>> THEN ch ELSE push_all(push(ch, Head(cs), msg), Tail(cs), msg)

\* for peer in self.peers.itervalues(): if peer.up: peer.push(msg)
push_to_up_peers(ch, n, msg) ==
    [l \in Links |->
        IF l[1] = n /\ IsUp(peers[n][l[2]]) THEN Append(ch[l], msg) ELSE ch[l]]

(***************************************************************************)
(* Predicates of subscriptions.                                            *)
(***************************************************************************)
\* no subscription is held to be impossible
ImpossibleNever(mask, value) == FALSE

\* the sanity check of add_local_subscription: a 1 bit of value is masked out
Impossible(mask, value) == AndNot(value, mask) # 0

\* only the same (mask, value) is held to overlap
Overlaps_same(pmask, pvalue, mask, value) == pmask = mask /\ pvalue = value

\* the overlap test of add_local_subscription
Overlaps(pmask, pvalue, mask, value) == BitAnd(pmask, value) = BitAnd(mask, pvalue)

\* routing_id & mask == value
Matches(routing_id, mask, value) == BitAnd(routing_id, mask) = value

(***************************************************************************)
(* Dispatcher: the local subscription table.                               *)
(***************************************************************************)
\* no bucket ends the loop: every call appends a bucket
DecidingBucket_none(existing, mask, value, method) == 0

\* the first bucket of the loop that ends it: it overlaps, and either holds
\* the method (raise) or is the same (mask, value) (piggy-back); 0 if none
DecidingBucket(existing, mask, value, method) ==
    LET hit == {i \in 1..Len(existing) :
                    /\ Overlaps(existing[i].mask, existing[i].value, mask, value)
                    /\ \/ method \in DOMAIN existing[i].handlers
                       \/ (mask = existing[i].mask /\ value = existing[i].value)}
    IN IF hit = {} THEN 0 ELSE Min(hit)

add_local_subscription(n, msg_type, service, mask, value, method, schedule) ==
    LET key == <<msg_type, service>>
        existing == local_subs[n][key]
        i == DecidingBucket(existing, mask, value, method)
    IN
    /\ n_subops < MaxSubOps
    /\ n_subops' = n_subops + 1
    /\ IF Impossible(mask, value)
       THEN /\ result' = [op |-> "add_local_subscription",
                          rc |-> "ImpossibleSubscription"]
            /\ UNCHANGED <<local_subs, chan>>
       ELSE IF i # 0 /\ method \in DOMAIN existing[i].handlers
       THEN /\ result' = [op |-> "add_local_subscription",
                          rc |-> "OverlappingSubscription"]
            /\ UNCHANGED <<local_subs, chan>>
       ELSE IF i # 0
       THEN \* same (mask, value), another method: piggy-back, no announce
            /\ local_subs' = [local_subs EXCEPT ![n][key][i].handlers =
                                (method :> schedule) @@ @]
            /\ result' = [op |-> "add_local_subscription", rc |-> "ok"]
            /\ UNCHANGED chan
       ELSE /\ local_subs' = [local_subs EXCEPT ![n][key] =
                                Append(@, [mask |-> mask, value |-> value,
                                           handlers |-> (method :> schedule)])]
            /\ chan' = push_to_up_peers(chan, n,
                            [type |-> "ANNOUNCE", arity |-> 4, msg_type |-> msg_type,
                             service |-> service, mask |-> mask, value |-> value])
            /\ result' = [op |-> "add_local_subscription", rc |-> "ok"]
    /\ UNCHANGED <<peer_subs, connVars, sched, handled, pubs, rpcVars, n_sends, n_drops>>

remove_local_subscription(n, msg_type, service, mask, value) ==
    LET key == <<msg_type, service>>
        group == local_subs[n][key]
        hit == {i \in 1..Len(group) : group[i].mask = mask /\ group[i].value = value}
    IN
    /\ n_subops < MaxSubOps
    /\ n_subops' = n_subops + 1
    /\ UNCHANGED <<peer_subs, connVars, sched, handled, pubs, rpcVars, n_sends, n_drops>>
    /\ IF hit = {}
       THEN /\ result' = [op |-> "remove_local_subscription", rc |-> "False"]
            /\ UNCHANGED <<local_subs, chan>>
       ELSE /\ local_subs' = [local_subs EXCEPT ![n][key] = RemoveAt(@, Min(hit))]
            /\ chan' = push_to_up_peers(chan, n,
                            [type |-> "UNSUBSCRIBE", arity |-> 4, msg_type |-> msg_type,
                             service |-> service, mask |-> mask, value |-> value])
            /\ result' = [op |-> "remove_local_subscription", rc |-> "True"]

\* no handler is ever found
find_local_handler_none(n, msg_type, service, routing_id, method) == 0

\* the index of the first bucket that matches routing_id and holds method; 0
\* stands for (None, False)
find_local_handler(n, msg_type, service, routing_id, method) ==
    LET group == local_subs[n][<<msg_type, service>>]
        hit == {i \in 1..Len(group) :
                    /\ Matches(routing_id, group[i].mask, group[i].value)
                    /\ method \in DOMAIN group[i].handlers}
    IN IF hit = {} THEN 0 ELSE Min(hit)

\* no bucket is held to match
locally_handles_never(n, msg_type, service, routing_id) == FALSE

locally_handles(n, msg_type, service, routing_id) ==
    \E i \in 1..Len(local_subs[n][<<msg_type, service>>]) :
        LET b == local_subs[n][<<msg_type, service>>][i]
        IN Matches(routing_id, b.mask, b.value)

\* the buckets of a key, as a set
Buckets(n, key) == {local_subs[n][key][i] : i \in 1..Len(local_subs[n][key])}

\* the handler found, named by its registration
HandlerAt(n, msg_type, service, i, method) ==
    LET b == local_subs[n][<<msg_type, service>>][i]
    IN [node |-> n, msg_type |-> msg_type, service |-> service,
        mask |-> b.mask, value |-> b.value, method |-> method]

ScheduleAt(n, msg_type, service, i, method) ==
    local_subs[n][<<msg_type, service>>][i].handlers[method]

\* the (msg_type, service, mask, value) of every bucket, key by key
local_subscriptions(n) ==
    LET OfKey(key) ==
            [i \in 1..Len(local_subs[n][key]) |->
                [msg_type |-> key[1], service |-> key[2],
                 mask |-> local_subs[n][key][i].mask,
                 value |-> local_subs[n][key][i].value]]
        F[k \in 0..Len(KeySeq)] ==
            IF k = 0 THEN <<>> ELSE F[k - 1] \o OfKey(KeySeq[k])
    IN F[Len(KeySeq)]

(***************************************************************************)
(* Dispatcher: the peer subscription table.                                *)
(***************************************************************************)
RECURSIVE add_peer_subscriptions(_, _, _)
add_peer_subscriptions(ps, peer, subscriptions) ==
    IF subscriptions = <<>> THEN ps
    ELSE LET s == Head(subscriptions)
         IN add_peer_subscriptions(
                [ps EXCEPT ![<<s.msg_type, s.service>>] =
                    Append(@, [mask |-> s.mask, value |-> s.value, peer |-> peer])],
                peer, Tail(subscriptions))

\* every up peer with a matching entry, once per matching entry, in list order
find_peer_routes(n, msg_type, service, routing_id) ==
    LET subs == peer_subs[n][<<msg_type, service>>]
    IN SelectSeqIdx(subs, LAMBDA i :
            IsUp(subs[i].peer) /\ Matches(routing_id, subs[i].mask, subs[i].value))

PeerOf(entries) == [i \in 1..Len(entries) |-> entries[i].peer]

\* the loop of drop_peer_subscriptions over one list, which removes from the
\* list it iterates: index i moves on while the list shrinks under it
RECURSIVE drop_from_list(_, _, _, _)
drop_from_list(subs, i, peer, removed) ==
    IF i > Len(subs) THEN [subs |-> subs, removed |-> removed]
    ELSE IF subs[i].peer = peer
    THEN drop_from_list(RemoveFirst(subs, subs[i]), i + 1, peer,
                        Append(removed, subs[i]))
    ELSE drop_from_list(subs, i + 1, peer, removed)

drop_peer_subscriptions(ps, peer) ==
    [key \in Keys |-> drop_from_list(ps[key], 1, peer, <<>>).subs]

\* the list drop_peer_subscriptions returns
dropped_subscriptions(ps, peer) ==
    LET OfKey(key) ==
            LET r == drop_from_list(ps[key], 1, peer, <<>>).removed
            IN [i \in 1..Len(r) |-> [msg_type |-> key[1], service |-> key[2],
                                      mask |-> r[i].mask, value |-> r[i].value]]
        F[k \in 0..Len(KeySeq)] ==
            IF k = 0 THEN <<>> ELSE F[k - 1] \o OfKey(KeySeq[k])
    IN F[Len(KeySeq)]

(***************************************************************************)
(* Futures (junction.futures.RPC).                                         *)
(***************************************************************************)
\* the return codes; rc = 0 is a handler's normal return
RPC_OK == "0"
RPC_ERR_LOST_CONN == "RPC_ERR_LOST_CONN"
RPC_ERR_NOMETHOD == "RPC_ERR_NOMETHOD"
RPC_ERR_NOHANDLER == "RPC_ERR_NOHANDLER"
RPC_ERR_KNOWN == "RPC_ERR_KNOWN"
RPC_ERR_UNKNOWN == "RPC_ERR_UNKNOWN"
RPC_ERR_UNSER_RESP == "RPC_ERR_UNSER_RESP"
None == "None"

IsClient(n) == n \in Clients

\* a LocalTarget object: its ident is None; one is built per request
LocalTarget(n, counter) == [at |-> n, ident |-> None, k |-> counter]
IsLocalTarget(t) == t.ident = None

Drop(f, x) == [y \in DOMAIN f \ {x} |-> f[y]]

\* RPC(client, counter, target_count); `targets` keeps the idents asked and
\* `waits` is the _waits list (positions in the node's Wait objects)
new_rpc(counter, target_count, targets) ==
    [counter |-> counter, target_count |-> target_count, complete |-> FALSE,
     results |-> <<>>, targets |-> targets, completions |-> 0, expected |-> 0,
     waits |-> <<>>]

\* ProxiedClient.expect sets the future's target_count (`expected` counts it)
rpc_expected(rpc, target_count) ==
    [rpc EXCEPT !.target_count = target_count, !.expected = @ + 1]

\* RPC._incoming: one more arrival
rpc_incoming(rpc, ident, rc, res) ==
    [rpc EXCEPT !.results = Append(@, [ident |-> ident, rc |-> rc, result |-> res])]

\* RPC._complete: the completion event is set
rpc_complete(rpc) ==
    [rpc EXCEPT !.complete = TRUE, !.completions = @ + 1]

(***************************************************************************)
(* RPCClient and ProxiedClient.  `st` is one node's client:                *)
(* [inflight, by_peer, rpcs, waits, err]; err is set where the code raises. *)
(***************************************************************************)
client_state(n) ==
    [inflight |-> inflight[n], by_peer |-> by_peer[n], rpcs |-> rpcs[n],
     waits |-> waits[n], err |-> "ok"]

\* Wait(client, counters): not finished, its done event not set, no
\* transfers, no completed_rpc (0: counters start at 1); `pos` is where the
\* caller of wait() stands
new_wait(counters) ==
    [counters |-> counters, finished |-> FALSE, completed_rpc |-> 0,
     done |-> FALSE, pos |-> "blocked", transfers |-> <<>>]

\* the future of a counter where the list of a handle holds the object and
\* not its counter: it is no key of the client's rpcs
Obj(counter) == 0 - counter

\* the loop of Wait.finish over self.counters: list.remove raises
\* ValueError when the handle is not in the list
RECURSIVE detach(_, _, _)
detach(st, w, counters) ==
    IF counters = <<>> \/ st.err # "ok" THEN st
    ELSE IF Head(counters) \notin DOMAIN st.rpcs
    THEN detach(st, w, Tail(counters))
    ELSE IF \A i \in 1..Len(st.rpcs[Head(counters)].waits) :
                st.rpcs[Head(counters)].waits[i] # w
    THEN [st EXCEPT !.err = "ValueError"]
    ELSE detach([st EXCEPT !.rpcs[Head(counters)].waits = RemoveFirst(@, w)],
                w, Tail(counters))

\* a handle that is never finished
finish_never(st, w, counter) == st

\* a handle that takes the first future of its group as the completed one
finish_first(st, w, counter) ==
    IF st.waits[w].finished THEN st
    ELSE LET st1 == detach([st EXCEPT !.waits[w].finished = TRUE,
                                      !.waits[w].completed_rpc =
                                            st.waits[w].counters[1]],
                           w, st.waits[w].counters)
         IN IF st1.err # "ok" THEN st1 ELSE [st1 EXCEPT !.waits[w].done = TRUE]

\* Wait.finish(rpc)
finish(st, w, counter) ==
    IF st.waits[w].finished THEN st
    ELSE LET st1 == detach([st EXCEPT !.waits[w].finished = TRUE,
                                      !.waits[w].completed_rpc =
                                        IF counter \in DOMAIN st.waits[w].transfers
                                        THEN st.waits[w].transfers[counter]
                                        ELSE counter],
                           w, st.waits[w].counters)
         IN IF st1.err # "ok" THEN st1 ELSE [st1 EXCEPT !.waits[w].done = TRUE]

RECURSIVE finish_all(_, _, _)
finish_all(st, ws, counter) ==
    IF ws = <<>> \/ st.err # "ok" THEN st
    ELSE finish_all(finish(st, Head(ws), counter), Tail(ws), counter)

\* RPC._complete on the client's state: the future is complete and every
\* handle of its wait list is finished
complete(st, counter) ==
    finish_all([st EXCEPT !.rpcs[counter] = rpc_complete(@)],
               st.rpcs[counter].waits, counter)

\* RPCClient.sent
sent(st, counter, targets) ==
    [st EXCEPT
        !.inflight = (counter :> {t.ident : t \in targets}) @@ @,
        !.by_peer = [p \in DOMAIN @ \cup targets |->
                        IF p \in targets
                        THEN (IF p \in DOMAIN @ THEN @[p] ELSE {}) \cup {counter}
                        ELSE @[p]]]

\* an arrival that leaves the by-peer index alone
arrival_inflight_only(st, counter, peer) ==
    IF counter \notin DOMAIN st.inflight THEN [st EXCEPT !.err = "KeyError"]
    ELSE IF peer.ident \notin st.inflight[counter] THEN [st EXCEPT !.err = "KeyError"]
    ELSE [st EXCEPT !.inflight[counter] = @ \ {peer.ident}]

\* RPCClient.arrival: both removals raise KeyError on a missing element
arrival(st, counter, peer) ==
    IF counter \notin DOMAIN st.inflight THEN [st EXCEPT !.err = "KeyError"]
    ELSE IF peer.ident \notin st.inflight[counter] THEN [st EXCEPT !.err = "KeyError"]
    ELSE LET st1 == [st EXCEPT !.inflight[counter] = @ \ {peer.ident}]
         IN IF peer \notin DOMAIN st1.by_peer THEN [st1 EXCEPT !.err = "KeyError"]
            ELSE IF counter \notin st1.by_peer[peer] THEN [st1 EXCEPT !.err = "KeyError"]
            ELSE [st1 EXCEPT !.by_peer[peer] = @ \ {counter}]

\* ProxiedClient.sent
proxied_sent(st, counter, targets) ==
    [st EXCEPT
        !.inflight = (counter :> 0) @@ @,
        !.by_peer = [p \in DOMAIN @ \cup targets |->
                        IF p \in targets
                        THEN (counter :> 0) @@ (IF p \in DOMAIN @ THEN @[p] ELSE <<>>)
                        ELSE @[p]]]

\* an arrival that is not counted
proxied_arrival_none(st, counter, peer) == st

\* ProxiedClient.arrival
proxied_arrival(st, counter, peer) ==
    IF counter \notin DOMAIN st.inflight THEN [st EXCEPT !.err = "KeyError"]
    ELSE LET st1 == [st EXCEPT !.inflight[counter] = @ - 1]
         IN IF peer \notin DOMAIN st1.by_peer THEN [st1 EXCEPT !.err = "KeyError"]
            ELSE IF counter \notin DOMAIN st1.by_peer[peer]
            THEN [st1 EXCEPT !.err = "KeyError"]
            ELSE IF st1.by_peer[peer][counter] - 1 = 0
            THEN [st1 EXCEPT !.by_peer[peer] = Drop(@, counter)]
            ELSE [st1 EXCEPT !.by_peer[peer][counter] = @ - 1]

\* the future is held to be complete at every response
NoneAwaitedAlways(proxied, x) == TRUE

\* "not self.inflight[counter]": an empty set on a hub, zero on a client
NoneAwaited(proxied, x) == IF proxied THEN x = 0 ELSE x = {}

\* "not self.by_peer[id(peer)]": an empty set on a hub, an empty dict on a client
Empty(proxied, x) == IF proxied THEN DOMAIN x = {} ELSE x = {}

\* RPCClient.response (ProxiedClient inherits it and overrides arrival)
response(st, proxied, peer, counter, rc, res) ==
    LET st1 == IF proxied THEN proxied_arrival(st, counter, peer)
               ELSE arrival(st, counter, peer)
    IN IF st1.err # "ok" THEN st1
       ELSE IF counter \notin DOMAIN st1.rpcs THEN st1
       ELSE LET st2 == [st1 EXCEPT !.rpcs[counter] =
                                        rpc_incoming(@, peer.ident, rc, res)]
                st3 == IF NoneAwaited(proxied, st2.inflight[counter])
                       THEN IF complete(st2, counter).err # "ok"
                            THEN complete(st2, counter)
                            ELSE [complete(st2, counter) EXCEPT
                                        !.inflight = Drop(@, counter)]
                       ELSE st2
            IN IF st3.err # "ok" THEN st3
               ELSE IF Empty(proxied, st3.by_peer[peer])
               THEN [st3 EXCEPT !.by_peer = Drop(@, peer)]
               ELSE st3

\* the counters of a set or of a dict's keys, in ascending order
RECURSIVE Ascending(_)
Ascending(S) == IF S = {} THEN <<>> ELSE <<Min(S)>> \o Ascending(S \ {Min(S)})

\* no counter is found for a peer that goes down
by_peer_counters_none(st, proxied, peer) == {}

\* the counters by_peer holds for a peer (a set on a hub, a dict's keys on a client)
by_peer_counters(st, proxied, peer) ==
    IF peer \notin DOMAIN st.by_peer THEN {}
    ELSE IF proxied THEN DOMAIN st.by_peer[peer] ELSE st.by_peer[peer]

RECURSIVE lost_conn_responses(_, _, _, _)
lost_conn_responses(st, proxied, peer, counters) ==
    IF counters = <<>> \/ st.err # "ok" THEN st
    ELSE lost_conn_responses(
            response(st, proxied, peer, Head(counters), RPC_ERR_LOST_CONN, None),
            proxied, peer, Tail(counters))

\* RPCClient.connection_down: a LOST_CONN response for every counter the
\* peer is awaited for
connection_down(st, proxied, peer) ==
    lost_conn_responses(st, proxied, peer,
                        Ascending(by_peer_counters(st, proxied, peer)))

(***************************************************************************)
(* Dispatcher: peers.                                                      *)
(***************************************************************************)
\* Dispatcher.proxied_response on (proxies, channels)
proxied_response(px, counter, rc, res) ==
    LET entry == px.proxies[counter]
    IN [proxies |-> IF entry.awaiting - 1 = 0 THEN Drop(px.proxies, counter)
                    ELSE [px.proxies EXCEPT ![counter].awaiting = @ - 1],
        chan |-> push(px.chan, entry.peer,
                      [type |-> "PROXY_RESPONSE", arity |-> 3,
                       counter |-> entry.client_counter, rc |-> rc,
                       result |-> res])]

\* nothing is forwarded for a peer that goes down
lost_conn_proxied_none(px, counters) == px

\* the loop of drop_peer over by_peer[id(peer)]
RECURSIVE lost_conn_proxied(_, _)
lost_conn_proxied(px, counters) ==
    IF counters = <<>> THEN px
    ELSE lost_conn_proxied(
            IF Head(counters) \in DOMAIN px.proxies
            THEN proxied_response(px, Head(counters), RPC_ERR_LOST_CONN, None)
            ELSE px,
            Tail(counters))

\* the idents in their order
IdentOrder == <<"A", "B", "C", "K">>
Rank(n) == CHOOSE i \in DOMAIN IdentOrder : IdentOrder[i] = n

\* the socket of the pair that n dials to m
Serial(n, m) == IF Rank(n) < Rank(m) THEN 1 ELSE 2

\* n opens a socket to m and the handshake starts: both sides send
\* (ident, subscription_list); k is the socket the record travels on
Connect(n, m) ==
    LET k == Serial(n, m)
    IN
    /\ n # m
    /\ conn_state[Conn(n, m, k)] = "none"
    /\ conn_state[Conn(m, n, k)] = "none"
    /\ conn_state' = [conn_state EXCEPT ![Conn(n, m, k)] = "handshaking",
                                        ![Conn(m, n, k)] = "handshaking"]
    /\ chan' = [chan EXCEPT
            ![<<n, m>>] = Append(@, [type |-> "HANDSHAKE", arity |-> 2, ident |-> n,
                                     subscriptions |-> local_subscriptions(n),
                                     k |-> k]),
            ![<<m, n>>] = Append(@, [type |-> "HANDSHAKE", arity |-> 2, ident |-> m,
                                     subscriptions |-> local_subscriptions(m),
                                     k |-> k])]
    /\ UNCHANGED <<subVars, peers, established, reconnecting, sched, handled,
                   pubs, result, rpcVars, n_subops, n_sends, n_drops>>

\* the (dialler, acceptor) pair of a connection's socket, as ranks
SocketPair(c) ==
    LET lo == IF Rank(c.at) < Rank(c.ident) THEN c.at ELSE c.ident
        hi == IF Rank(c.at) < Rank(c.ident) THEN c.ident ELSE c.at
    IN IF c.k = 1 THEN <<Rank(lo), Rank(hi)>> ELSE <<Rank(hi), Rank(lo)>>

\* connection.compare: <<winner, loser>>, the winner being the connection
\* whose pair is the smaller
compare(p1, p2) ==
    IF \/ SocketPair(p1)[1] < SocketPair(p2)[1]
       \/ SocketPair(p1)[1] = SocketPair(p2)[1]
            /\ SocketPair(p1)[2] < SocketPair(p2)[2]
    THEN <<p1, p2>> ELSE <<p2, p1>>

\* the newest connection always wins
store_resolution_newest(stored, waiting, peer) ==
    [winner |-> peer, loser |-> IF stored # NoConn THEN stored ELSE waiting]

\* the reconnecting table is not consulted
store_resolution_stored(stored, waiting, peer) ==
    IF stored # NoConn
    THEN [winner |-> compare(peer, stored)[1], loser |-> compare(peer, stored)[2]]
    ELSE [winner |-> peer, loser |-> NoConn]

\* store_peer's choice of winner and loser: between the connection stored
\* for the ident and the new one; with none stored, the new one wins over
\* the connection in a reconnect loop to the ident (`waiting`), if any
store_resolution(stored, waiting, peer) ==
    IF stored # NoConn
    THEN [winner |-> compare(peer, stored)[1], loser |-> compare(peer, stored)[2]]
    ELSE [winner |-> peer, loser |-> waiting]

\* the socket of connection c is closed: what the remote sent on it is lost
close_socket(ch, c) ==
    [ch EXCEPT ![<<c.ident, c.at>>] =
        SelectSeq(@, LAMBDA x : x.type = "HANDSHAKE" /\ x.k # c.k)]

\* the handshake of a socket completes at n and store_peer runs; a
\* connection that store_peer refuses goes down, and the stored connection
\* that loses goes down through go_down, which drops it from the dispatcher;
\* a losing connection in a reconnect loop is down already, and go_down
\* ends its loop
store_peer(n, m) ==
    \E i \in 1..Len(chan[<<m, n>>]) :
    LET msg == chan[<<m, n>>][i]
        peer == Conn(n, m, msg.k)
        r == store_resolution(peers[n][m], reconnecting[n][m], peer)
        loser == r.loser
        received == [chan EXCEPT ![<<m, n>>] = RemoveAt(@, i)]
        st == connection_down(client_state(n), IsClient(n), loser)
        px == lost_conn_proxied(
                [proxies |-> inflight_proxies[n],
                 chan |-> close_socket(received, loser)],
                Ascending(by_peer_counters(client_state(n), IsClient(n), loser)))
    IN
    /\ msg.type = "HANDSHAKE"
    /\ conn_state[peer] = "handshaking"
    /\ IF loser = peer
       THEN /\ established' = [established EXCEPT ![r.winner] = TRUE,
                                                  ![peer] = TRUE]
            /\ conn_state' = [conn_state EXCEPT ![peer] = "down"]
            /\ chan' = received
            /\ UNCHANGED <<peers, peer_subs, reconnecting, rpcVars>>
       ELSE IF loser # NoConn /\ peers[n][m] = NoConn
       THEN /\ reconnecting' = [reconnecting EXCEPT ![n][m] = NoConn]
            /\ established' = [established EXCEPT ![peer] = TRUE,
                                                  ![loser] = TRUE]
            /\ conn_state' = [conn_state EXCEPT ![peer] = "up",
                                                ![loser] = "down"]
            /\ peers' = [peers EXCEPT ![n][m] = peer]
            /\ peer_subs' = [peer_subs EXCEPT ![n] =
                    add_peer_subscriptions(@, peer, msg.subscriptions)]
            /\ chan' = received
            /\ UNCHANGED rpcVars
       ELSE IF loser # NoConn
       THEN /\ established' = [established EXCEPT ![peer] = TRUE,
                                                  ![loser] = TRUE]
            /\ conn_state' = [conn_state EXCEPT ![peer] = "up",
                                                ![loser] = "down"]
            /\ peers' = [peers EXCEPT ![n][m] = peer]
            /\ peer_subs' = [peer_subs EXCEPT ![n] =
                    add_peer_subscriptions(drop_peer_subscriptions(@, loser),
                                           peer, msg.subscriptions)]
            /\ inflight_proxies' = [inflight_proxies EXCEPT ![n] = px.proxies]
            /\ chan' = px.chan
            /\ inflight' = [inflight EXCEPT ![n] = st.inflight]
            /\ by_peer' = [by_peer EXCEPT ![n] = st.by_peer]
            /\ rpcs' = [rpcs EXCEPT ![n] = st.rpcs]
            /\ waits' = [waits EXCEPT ![n] = st.waits]
            /\ UNCHANGED <<rpc_counter, reconnecting>>
       ELSE /\ established' = [established EXCEPT ![peer] = TRUE]
            /\ conn_state' = [conn_state EXCEPT ![peer] = "up"]
            /\ peers' = [peers EXCEPT ![n][m] = peer]
            /\ peer_subs' = [peer_subs EXCEPT ![n] =
                    add_peer_subscriptions(@, peer, msg.subscriptions)]
            /\ chan' = received
            /\ UNCHANGED <<rpcVars, reconnecting>>
    /\ UNCHANGED <<local_subs, sched, handled, pubs, result,
                   n_subops, n_sends, n_drops>>

\* the connection n holds for m goes down (its socket closed) and the
\* dispatcher drops the peer; with `reconnect`, for a connection that n
\* dialled, its reconnect loop starts and add_reconnecting enters it in the
\* reconnecting table under the ident
go_down(n, m, reconnect) ==
    LET peer == peers[n][m]
        st == connection_down(client_state(n), IsClient(n), peer)
        px == lost_conn_proxied(
                [proxies |-> inflight_proxies[n],
                 chan |-> close_socket(chan, peer)],
                Ascending(by_peer_counters(client_state(n), IsClient(n), peer)))
    IN
    /\ n_drops < MaxDrops
    /\ IsUp(peer)
    /\ reconnect => peer.k = Serial(n, m)
    /\ n_drops' = n_drops + 1
    /\ reconnecting' = IF reconnect THEN [reconnecting EXCEPT ![n][m] = peer]
                       ELSE reconnecting
    /\ conn_state' = [conn_state EXCEPT ![peer] = "down"]
    /\ peers' = [peers EXCEPT ![n][m] = NoConn]
    /\ peer_subs' = [peer_subs EXCEPT ![n] = drop_peer_subscriptions(@, peer)]
    /\ inflight_proxies' = [inflight_proxies EXCEPT ![n] = px.proxies]
    /\ chan' = px.chan
    /\ inflight' = [inflight EXCEPT ![n] = st.inflight]
    /\ by_peer' = [by_peer EXCEPT ![n] = st.by_peer]
    /\ rpcs' = [rpcs EXCEPT ![n] = st.rpcs]
    /\ waits' = [waits EXCEPT ![n] = st.waits]
    /\ result' = [op |-> "drop_peer", rc |-> st.err,
                  subs |-> dropped_subscriptions(peer_subs[n], peer)]
    /\ UNCHANGED <<local_subs, established, sched, handled, pubs, rpc_counter,
                   n_subops, n_sends>>

\* Dispatcher.drop_peer as the last step of a connection that goes down for
\* good
drop_peer(n, m) == go_down(n, m, FALSE)

\* Dispatcher.drop_peer called at n for a connection that is down already
\* and is not the stored one: the connection that lost the resolution of
\* store_peer
drop_peer_down(n, peer) ==
    LET m == peer.ident
        st == connection_down(client_state(n), IsClient(n), peer)
        px == lost_conn_proxied(
                [proxies |-> inflight_proxies[n], chan |-> chan],
                Ascending(by_peer_counters(client_state(n), IsClient(n), peer)))
    IN
    /\ n_drops < MaxDrops
    /\ peer.at = n
    /\ conn_state[peer] = "down"
    /\ peers[n][m] # peer
    /\ n_drops' = n_drops + 1
    /\ peers' = [peers EXCEPT ![n][m] = NoConn]
    /\ peer_subs' = [peer_subs EXCEPT ![n] = drop_peer_subscriptions(@, peer)]
    /\ inflight_proxies' = [inflight_proxies EXCEPT ![n] = px.proxies]
    /\ chan' = px.chan
    /\ inflight' = [inflight EXCEPT ![n] = st.inflight]
    /\ by_peer' = [by_peer EXCEPT ![n] = st.by_peer]
    /\ rpcs' = [rpcs EXCEPT ![n] = st.rpcs]
    /\ waits' = [waits EXCEPT ![n] = st.waits]
    /\ result' = [op |-> "drop_peer", rc |-> st.err,
                  subs |-> dropped_subscriptions(peer_subs[n], peer)]
    /\ UNCHANGED <<local_subs, conn_state, established, reconnecting, sched,
                   handled, pubs, rpc_counter, n_subops, n_sends>>

\* a message of `type` is next on the connection n holds for m, which is up
Receives(n, m, type) ==
    /\ IsUp(peers[n][m])
    /\ chan[<<m, n>>] # <<>>
    /\ Head(chan[<<m, n>>]).type = type

\* an ANNOUNCE is stored whatever its arity
incoming_announce_unchecked(n, m) ==
    /\ Receives(n, m, "ANNOUNCE")
    /\ chan' = [chan EXCEPT ![<<m, n>>] = Tail(@)]
    /\ peer_subs' = [peer_subs EXCEPT ![n] =
            add_peer_subscriptions(@, peers[n][m], <<Head(chan[<<m, n>>])>>)]
    /\ UNCHANGED <<local_subs, connVars, sched, handled, pubs, result, rpcVars,
                   n_subops, n_sends, n_drops>>

incoming_announce(n, m) ==
    LET msg == Head(chan[<<m, n>>])
    IN
    /\ Receives(n, m, "ANNOUNCE")
    /\ chan' = [chan EXCEPT ![<<m, n>>] = Tail(@)]
    /\ peer_subs' = [peer_subs EXCEPT ![n] =
            IF msg.arity # 4 THEN @
            ELSE add_peer_subscriptions(@, peers[n][m], <<msg>>)]
    /\ UNCHANGED <<local_subs, connVars, sched, handled, pubs, result, rpcVars,
                   n_subops, n_sends, n_drops>>

\* the length test asks for 5 elements; remove_local_subscription pushes 4,
\* and a message of 5 fails to unpack into the 4 names
incoming_unsubscribe(n, m) ==
    LET msg == Head(chan[<<m, n>>])
    IN
    /\ Receives(n, m, "UNSUBSCRIBE")
    /\ chan' = [chan EXCEPT ![<<m, n>>] = Tail(@)]
    /\ result' = IF msg.arity # 5 THEN result
                 ELSE [op |-> "incoming_unsubscribe", rc |-> "ValueError"]
    /\ UNCHANGED <<subVars, connVars, sched, handled, pubs, rpcVars,
                   n_subops, n_sends, n_drops>>

(***************************************************************************)
(* Dispatcher: publish.                                                    *)
(***************************************************************************)
\* Dispatcher.publish_handler / LocalTarget.push of a publish: the handler runs
Invocation(h, arg) ==
    [node |-> h.node, msg_type |-> h.msg_type, service |-> h.service,
     mask |-> h.mask, value |-> h.value, method |-> h.method, arg |-> arg]

\* the keys of target_selection's by_addr: the idents of the candidates
by_addr(targets) == {targets[i].ident : i \in 1..Len(targets)}

\* by_addr[choice]: a later candidate of an ident replaces an earlier one
target_of(targets, choice) ==
    targets[CHOOSE i \in 1..Len(targets) :
                /\ targets[i].ident = choice
                /\ \A j \in (i + 1)..Len(targets) : targets[j].ident # choice]

\* nothing about subscriptions or connections is on its way
NoControlInFlight ==
    /\ \A l \in Links : \A i \in 1..Len(chan[l]) :
            chan[l][i].type \notin {"HANDSHAKE", "ANNOUNCE", "UNSUBSCRIBE"}
    /\ \A c \in Conns : conn_state[c] # "handshaking"

\* the peer subscriptions n holds for each up peer are that peer's local
\* subscriptions
InSync(n) ==
    \A m \in Nodes : IsUp(peers[n][m]) =>
        \A key \in Keys :
            {<<e.mask, e.value>> :
                e \in {peer_subs[n][key][i] :
                        i \in {k \in 1..Len(peer_subs[n][key]) :
                                peer_subs[n][key][k].peer = peers[n][m]}}}
            = {<<local_subs[m][key][i].mask, local_subs[m][key][i].value>> :
                i \in 1..Len(local_subs[m][key])}

\* the body of send_publish at node n for the publish `id`, on the queues ch,
\* n's scheduler sc and the handler runs hd: what it leaves of them and what
\* it returns; `choice` is what select_peer returns (read only by a singular
\* publish)
publish_to_targets(n, ch, sc, hd, service, routing_id, method, singular, choice, id) ==
    LET routes == PeerOf(find_peer_routes(n, MSG_TYPE_PUBLISH, service, routing_id))
        i == find_local_handler(n, MSG_TYPE_PUBLISH, service, routing_id, method)
        all == IF i # 0 THEN Append(routes, LocalTarget(n, 0)) ELSE routes
        targets == IF ~singular THEN all
                   ELSE IF choice \in by_addr(all) THEN <<target_of(all, choice)>>
                   ELSE <<>>   \* select_peer returns one of the keys it is handed
        remote == SelectSeq(targets, LAMBDA t : ~IsLocalTarget(t))
        local == \E k \in 1..Len(targets) : IsLocalTarget(targets[k])
        h == HandlerAt(n, MSG_TYPE_PUBLISH, service, i, method)
        msg == [type |-> "PUBLISH", arity |-> 5, service |-> service,
                routing_id |-> routing_id, method |-> method, args |-> id]
    IN
    IF singular /\ all = <<>>
    THEN \* select_peer is handed no candidate and by_addr has no key
         [chan |-> ch, sched |-> sc, handled |-> hd, rc |-> "KeyError",
          selectable |-> {choice}]
    ELSE [chan |-> push_all(ch, remote, msg),
          sched |-> IF local /\ ScheduleAt(n, MSG_TYPE_PUBLISH, service, i, method)
                    THEN Append(sc, [kind |-> "publish_handler", h |-> h,
                                     arg |-> id])
                    ELSE sc,
          handled |-> IF local /\ ~ScheduleAt(n, MSG_TYPE_PUBLISH, service, i, method)
                      THEN Append(hd, Invocation(h, id))
                      ELSE hd,
          rc |-> IF local \/ routes # <<>> THEN "True" ELSE "False",
          selectable |-> IF singular THEN by_addr(all) ELSE {choice}]

\* Hub.publish: send_publish with the targets chosen
send_publish(n, service, routing_id, method, singular, choice) ==
    LET id == Len(pubs) + 1
        out == publish_to_targets(n, chan, sched[n], handled, service, routing_id,
                                  method, singular, choice, id)
    IN
    /\ n_sends' = n_sends + 1
    /\ pubs' = Append(pubs, [node |-> n, service |-> service,
                             routing_id |-> routing_id, method |-> method,
                             singular |-> singular,
                             quiet |-> NoControlInFlight /\ InSync(n)])
    /\ UNCHANGED <<subVars, connVars, rpcVars, n_subops, n_drops>>
    /\ choice \in out.selectable
    /\ chan' = out.chan
    /\ sched' = [sched EXCEPT ![n] = out.sched]
    /\ handled' = out.handled
    /\ result' = [op |-> "send_publish", rc |-> out.rc]

\* Client.publish: the PROXY_PUBLISH goes to the client's hub
send_proxied_publish(n, service, routing_id, method, singular) ==
    LET hub == CHOOSE c \in {peers[n][m] : m \in Nodes} : c # NoConn
        id == Len(pubs) + 1
    IN
    /\ IsClient(n)
    /\ \E m \in Nodes : peers[n][m] # NoConn
    /\ n_sends' = n_sends + 1
    /\ pubs' = Append(pubs, [node |-> n, service |-> service,
                             routing_id |-> routing_id, method |-> method,
                             singular |-> singular,
                             quiet |-> NoControlInFlight /\ InSync("A")])
    /\ UNCHANGED <<subVars, connVars, rpcVars, sched, handled, n_subops, n_drops>>
    /\ IF IsUp(hub)
       THEN /\ chan' = push(chan, hub,
                            [type |-> "PROXY_PUBLISH", arity |-> 6,
                             service |-> service, routing_id |-> routing_id,
                             method |-> method, args |-> id,
                             singular |-> singular])
            /\ result' = [op |-> "publish", rc |-> "None"]
       ELSE /\ chan' = chan
            /\ result' = [op |-> "publish", rc |-> "Unroutable"]

\* the hub forwards a client's publish with send_publish
incoming_proxy_publish(n, m, choice) ==
    LET msg == Head(chan[<<m, n>>])
        out == publish_to_targets(n, [chan EXCEPT ![<<m, n>>] = Tail(@)], sched[n],
                                  handled, msg.service, msg.routing_id, msg.method,
                                  msg.singular, choice, msg.args)
    IN
    /\ Receives(n, m, "PROXY_PUBLISH")
    /\ UNCHANGED <<subVars, connVars, pubs, rpcVars, n_subops, n_sends, n_drops>>
    /\ IF msg.arity # 6
       THEN /\ chan' = [chan EXCEPT ![<<m, n>>] = Tail(@)]
            /\ UNCHANGED <<sched, handled, result>>
       ELSE /\ choice \in out.selectable
            /\ chan' = out.chan
            /\ sched' = [sched EXCEPT ![n] = out.sched]
            /\ handled' = out.handled
            /\ result' = IF out.rc = "KeyError"
                         THEN [op |-> "incoming_proxy_publish", rc |-> "KeyError"]
                         ELSE result

incoming_publish(n, m) ==
    LET msg == Head(chan[<<m, n>>])
        i == find_local_handler(n, MSG_TYPE_PUBLISH, msg.service, msg.routing_id,
                                msg.method)
        h == HandlerAt(n, MSG_TYPE_PUBLISH, msg.service, i, msg.method)
        schedule == ScheduleAt(n, MSG_TYPE_PUBLISH, msg.service, i, msg.method)
    IN
    /\ Receives(n, m, "PUBLISH")
    /\ chan' = [chan EXCEPT ![<<m, n>>] = Tail(@)]
    /\ sched' = IF msg.arity = 5 /\ i # 0 /\ schedule
                THEN [sched EXCEPT ![n] =
                        Append(@, [kind |-> "publish_handler", h |-> h,
                                   arg |-> msg.args])]
                ELSE sched
    /\ handled' = IF msg.arity = 5 /\ i # 0 /\ ~schedule
                  THEN Append(handled, Invocation(h, msg.args))
                  ELSE handled
    /\ UNCHANGED <<subVars, connVars, pubs, result, rpcVars,
                   n_subops, n_sends, n_drops>>

\* the scheduler runs the publish handler of n that was scheduled last
run_publish_handler_newest(n) ==
    LET last == sched[n][Len(sched[n])]
    IN
    /\ sched[n] # <<>>
    /\ last.kind = "publish_handler"
    /\ sched' = [sched EXCEPT ![n] = SubSeq(@, 1, Len(@) - 1)]
    /\ handled' = Append(handled, Invocation(last.h, last.arg))
    /\ UNCHANGED <<subVars, connVars, chan, pubs, result, rpcVars,
                   n_subops, n_sends, n_drops>>

\* the scheduler runs the next scheduled publish handler of n
run_publish_handler(n) ==
    /\ sched[n] # <<>>
    /\ Head(sched[n]).kind = "publish_handler"
    /\ sched' = [sched EXCEPT ![n] = Tail(@)]
    /\ handled' = Append(handled, Invocation(Head(sched[n]).h, Head(sched[n]).arg))
    /\ UNCHANGED <<subVars, connVars, chan, pubs, result, rpcVars,
                   n_subops, n_sends, n_drops>>

\* the message types of Dispatcher.handlers, and the handshake the connection
\* consumes itself
handlers ==
    {"HANDSHAKE", "ANNOUNCE", "UNSUBSCRIBE", "PUBLISH", "RPC_REQUEST",
     "RPC_RESPONSE", "PROXY_PUBLISH", "PROXY_REQUEST", "PROXY_RESPONSE",
     "PROXY_RESPONSE_COUNT", "PROXY_QUERY_COUNT"}

\* Dispatcher.incoming: a message of a type without a handler is dropped
incoming_unrecognized(n, m) ==
    /\ IsUp(peers[n][m])
    /\ chan[<<m, n>>] # <<>>
    /\ Head(chan[<<m, n>>]).type \notin handlers
    /\ chan' = [chan EXCEPT ![<<m, n>>] = Tail(@)]
    /\ UNCHANGED <<subVars, connVars, sched, handled, pubs, result, rpcVars,
                   n_subops, n_sends, n_drops>>

\* for msg in msgs: for target in targets: target.push(msg)
RECURSIVE push_each(_, _, _)
push_each(ch, cs, msgs) ==
    IF msgs = <<>> THEN ch
    ELSE push_each(push_all(ch, cs, Head(msgs)), cs, Tail(msgs))

\* send_publish of a lazy sequence: send_chunked_publish to the targets.  A
\* LocalTarget has no branch for the chunked message types.
send_chunked_publish(n, service, routing_id, method, chunks) ==
    LET routes == PeerOf(find_peer_routes(n, MSG_TYPE_PUBLISH, service, routing_id))
        i == find_local_handler(n, MSG_TYPE_PUBLISH, service, routing_id, method)
        counter == rpc_counter[n]
        open == [type |-> "PUBLISH_IS_CHUNKED", arity |-> 5, service |-> service,
                 routing_id |-> routing_id, method |-> method,
                 counter |-> counter]
        items == [k \in 1..Len(chunks) |->
                    [type |-> "PUBLISH_CHUNK", arity |-> 2, counter |-> counter,
                     chunk |-> chunks[k]]]
        end == [type |-> "PUBLISH_END", arity |-> 1, counter |-> counter]
    IN
    /\ n_sends' = n_sends + 1
    /\ rpc_counter' = [rpc_counter EXCEPT ![n] = @ + 1]
    /\ pubs' = Append(pubs, [node |-> n, service |-> service,
                             routing_id |-> routing_id, method |-> method,
                             singular |-> FALSE,
                             quiet |-> NoControlInFlight /\ InSync(n),
                             counter |-> counter, chunks |-> chunks])
    /\ chan' = push_each(chan, routes, <<open>> \o items \o <<end>>)
    /\ result' = [op |-> "send_chunked_publish",
                  rc |-> IF i # 0 \/ routes # <<>> THEN "True" ELSE "False"]
    /\ UNCHANGED <<subVars, connVars, sched, handled, inflight, by_peer, rpcs,
                   inflight_proxies, waits, n_subops, n_drops>>

(***************************************************************************)
(* Dispatcher and RPCClient: RPC requests.                                 *)
(***************************************************************************)
\* what a call at node n works on: the queues, n's scheduler, the handlers
\* run so far, n's rpc client and n's proxy table
World(n) ==
    [chan |-> chan, sched |-> sched[n], handled |-> handled,
     st |-> client_state(n), proxies |-> inflight_proxies[n]]

Commit(n, w) ==
    /\ chan' = w.chan
    /\ sched' = [sched EXCEPT ![n] = w.sched]
    /\ handled' = w.handled
    /\ inflight' = [inflight EXCEPT ![n] = w.st.inflight]
    /\ by_peer' = [by_peer EXCEPT ![n] = w.st.by_peer]
    /\ rpcs' = [rpcs EXCEPT ![n] = w.st.rpcs]
    /\ waits' = [waits EXCEPT ![n] = w.st.waits]
    /\ inflight_proxies' = [inflight_proxies EXCEPT ![n] = w.proxies]

\* find_local_handler found nothing: (None, False)
NoHandler ==
    [node |-> None, msg_type |-> None, service |-> None, mask |-> 0, value |-> 0,
     method |-> None]

\* one run of an rpc handler: who asked (an ident, None for the node itself)
\* and under which counter
RpcInvocation(h, peer, counter) ==
    [node |-> h.node, msg_type |-> h.msg_type, service |-> h.service,
     mask |-> h.mask, value |-> h.value, method |-> h.method,
     arg |-> counter, caller |-> peer.ident]

\* what the handlers that the hubs register do when they are called: the
\* one of m1 returns its hub's ident, the one of m2 raises a registered
\* HandledError, the one of m3 raises another Exception, and the one of m4
\* returns an object that cannot be serialized
HandlerMethods == {"m1", "m2", "m3", "m4"}

handler_call(h) ==
    IF h.method = "m2" THEN [raises |-> "HandledError", value |-> None]
    ELSE IF h.method = "m3" THEN [raises |-> "Exception", value |-> None]
    ELSE IF h.method = "m4" THEN [raises |-> None, value |-> "object"]
    ELSE [raises |-> None, value |-> h.node]

\* the first try block of rpc_handler: (rc, result)
handler_result(h) ==
    IF handler_call(h).raises = "HandledError"
    THEN [rc |-> RPC_ERR_KNOWN, result |-> "(code, args)"]
    ELSE IF handler_call(h).raises = "Exception"
    THEN [rc |-> RPC_ERR_UNKNOWN, result |-> "traceback"]
    ELSE [rc |-> RPC_OK, result |-> handler_call(h).value]

\* the second try block: peer.dump raises TypeError for a result that
\* cannot be serialized; LocalTarget.dump returns the message as it is
dumped(peer, r) ==
    IF ~IsLocalTarget(peer) /\ r.result = "object"
    THEN [rc |-> RPC_ERR_UNSER_RESP, result |-> "repr(object)"]
    ELSE r

\* Dispatcher.rpc_handler: the handler runs, then its response is pushed to
\* the requester; LocalTarget.push hands an RPC_RESPONSE to rpc_client.response
rpc_handler(w, n, peer, counter, h, proxied) ==
    LET w1 == [w EXCEPT !.handled = Append(@, RpcInvocation(h, peer, counter))]
        r == dumped(peer, handler_result(h))
        msg == [type |-> IF proxied THEN "PROXY_RESPONSE" ELSE "RPC_RESPONSE",
                arity |-> 3, counter |-> counter, rc |-> r.rc, result |-> r.result]
    IN IF ~IsLocalTarget(peer) THEN [w1 EXCEPT !.chan = push(@, peer, msg)]
       ELSE IF proxied THEN w1
       ELSE [w1 EXCEPT !.st = response(@, IsClient(n), peer, counter, r.rc, r.result)]

\* LocalTarget.push of an RPC_REQUEST
LocalTarget_push(w, n, target, msg, h, schedule) ==
    IF schedule
    THEN [w EXCEPT !.sched = Append(@, [kind |-> "rpc_handler", h |-> h,
                                        peer |-> target, counter |-> msg.counter,
                                        proxied |-> FALSE])]
    ELSE rpc_handler(w, n, target, msg.counter, h, FALSE)

\* the loop of RPCClient.request: peer.push(msg) target by target; an
\* exception ends it
RECURSIVE push_targets(_, _, _, _, _, _)
push_targets(w, n, targets, msg, h, schedule) ==
    IF targets = <<>> \/ w.st.err # "ok" THEN w
    ELSE push_targets(
            IF IsLocalTarget(Head(targets))
            THEN LocalTarget_push(w, n, Head(targets), msg, h, schedule)
            ELSE [w EXCEPT !.chan = push(@, Head(targets), msg)],
            n, Tail(targets), msg, h, schedule)

\* RPCClient.request after next_counter; (h, schedule) are the LocalTarget's;
\* `kept` says whether the caller keeps the future it is returned (rpcs is a
\* WeakValueDictionary)
request(w, n, counter, targets, msg, h, schedule, kept) ==
    LET w1 == push_targets(w, n, targets, msg, h, schedule)
        target_set == {targets[i] : i \in 1..Len(targets)}
        st1 == IF IsClient(n) THEN proxied_sent(w1.st, counter, target_set)
               ELSE sent(w1.st, counter, target_set)
        rpc == new_rpc(counter, Len(targets), {t.ident : t \in target_set})
    IN IF w1.st.err # "ok" \/ target_set = {} THEN w1
       ELSE [w1 EXCEPT !.st = IF kept
                              THEN [st1 EXCEPT !.rpcs = (counter :> rpc) @@ @]
                              ELSE st1]

\* Dispatcher.send_rpc; `choice` is what select_peer returns
send_rpc(n, service, routing_id, method, singular, choice) ==
    LET i == find_local_handler(n, MSG_TYPE_RPC_REQUEST, service, routing_id, method)
        h == IF i = 0 THEN NoHandler
             ELSE HandlerAt(n, MSG_TYPE_RPC_REQUEST, service, i, method)
        schedule == i # 0 /\ ScheduleAt(n, MSG_TYPE_RPC_REQUEST, service, i, method)
        counter == rpc_counter[n]
        peers_ == PeerOf(find_peer_routes(n, MSG_TYPE_RPC_REQUEST, service,
                                          routing_id))
        all == IF i # 0 THEN <<LocalTarget(n, counter)>> \o peers_ ELSE peers_
        select == singular /\ Len(peers_) > 1
        routes == IF select THEN <<target_of(all, choice)>> ELSE all
        msg == [type |-> "RPC_REQUEST", arity |-> 6, counter |-> counter,
                service |-> service, routing_id |-> routing_id, method |-> method]
        w == request(World(n), n, counter, routes, msg, h, schedule, TRUE)
    IN
    /\ n_sends < MaxRpcs
    /\ n_sends' = n_sends + 1
    /\ IF select THEN choice \in by_addr(all) ELSE choice = None
    /\ rpc_counter' = [rpc_counter EXCEPT ![n] = @ + 1]
    /\ Commit(n, w)
    /\ result' = [op |-> "send_rpc",
                  rc |-> IF w.st.err # "ok" THEN w.st.err
                         ELSE IF routes = <<>> THEN "None" ELSE "RPC",
                  node |-> n, counter |-> counter, singular |-> singular,
                  candidates |-> all, targets |-> routes]
    /\ UNCHANGED <<subVars, connVars, pubs, n_subops, n_drops>>

incoming_rpc_request(n, m) ==
    LET msg == Head(chan[<<m, n>>])
        peer == peers[n][m]
        i == find_local_handler(n, MSG_TYPE_RPC_REQUEST, msg.service,
                                msg.routing_id, msg.method)
        h == IF i = 0 THEN NoHandler
             ELSE HandlerAt(n, MSG_TYPE_RPC_REQUEST, msg.service, i, msg.method)
        schedule == i # 0 /\ ScheduleAt(n, MSG_TYPE_RPC_REQUEST, msg.service, i,
                                        msg.method)
        rc == IF locally_handles(n, MSG_TYPE_RPC_REQUEST, msg.service,
                                 msg.routing_id)
              THEN RPC_ERR_NOMETHOD ELSE RPC_ERR_NOHANDLER
        w0 == [World(n) EXCEPT !.chan[<<m, n>>] = Tail(@)]
        w == IF msg.arity # 6 THEN w0
             ELSE IF i = 0
             THEN [w0 EXCEPT !.chan = push(@, peer,
                        [type |-> "RPC_RESPONSE", arity |-> 3,
                         counter |-> msg.counter, rc |-> rc, result |-> None])]
             ELSE IF schedule
             THEN [w0 EXCEPT !.sched = Append(@, [kind |-> "rpc_handler", h |-> h,
                                        peer |-> peer, counter |-> msg.counter,
                                        proxied |-> FALSE])]
             ELSE rpc_handler(w0, n, peer, msg.counter, h, FALSE)
    IN
    /\ Receives(n, m, "RPC_REQUEST")
    /\ Commit(n, w)
    /\ UNCHANGED <<subVars, connVars, pubs, result, rpc_counter,
                   n_subops, n_sends, n_drops>>

\* the scheduler runs the next scheduled rpc handler of n
run_rpc_handler(n) ==
    LET e == Head(sched[n])
        w == rpc_handler([World(n) EXCEPT !.sched = Tail(@)], n, e.peer,
                         e.counter, e.h, e.proxied)
    IN
    /\ sched[n] # <<>>
    /\ e.kind = "rpc_handler"
    /\ Commit(n, w)
    /\ result' = IF w.st.err = "ok" THEN result
                 ELSE [op |-> "rpc_handler", rc |-> w.st.err]
    /\ UNCHANGED <<subVars, connVars, pubs, rpc_counter, n_subops, n_sends, n_drops>>

\* Dispatcher.incoming_rpc_response at a hub
incoming_rpc_response(n, m) ==
    LET msg == Head(chan[<<m, n>>])
        peer == peers[n][m]
        w0 == [World(n) EXCEPT !.chan[<<m, n>>] = Tail(@)]
        proxy == msg.counter \in DOMAIN w0.proxies
        px == proxied_response([proxies |-> w0.proxies, chan |-> w0.chan],
                               msg.counter, msg.rc, msg.result)
        w1 == IF proxy THEN [w0 EXCEPT !.proxies = px.proxies, !.chan = px.chan]
              ELSE w0
        mistaken == /\ ~proxy
                    /\ \/ msg.counter \notin DOMAIN w0.st.inflight
                       \/ peer.ident \notin w0.st.inflight[msg.counter]
        w == IF msg.arity # 3 \/ mistaken THEN w0
             ELSE [w1 EXCEPT !.st = response(@, FALSE, peer, msg.counter,
                                             msg.rc, msg.result)]
    IN
    /\ ~IsClient(n)
    /\ Receives(n, m, "RPC_RESPONSE")
    /\ Commit(n, w)
    /\ result' = IF w.st.err = "ok" THEN result
                 ELSE [op |-> "incoming_rpc_response", rc |-> w.st.err]
    /\ UNCHANGED <<subVars, connVars, pubs, rpc_counter, n_subops, n_sends, n_drops>>

(***************************************************************************)
(* Futures: waiting on them and discarding them.                           *)
(***************************************************************************)
\* the loop of wait() that appends the handle to every future's _waits
RECURSIVE attach(_, _, _)
attach(rs, w, rpc_list) ==
    IF rpc_list = <<>> THEN rs
    ELSE attach([rs EXCEPT ![Head(rpc_list)].waits = Append(@, w)],
                w, Tail(rpc_list))

\* RPCClient.wait up to its suspension: the first complete future of the
\* list is returned at once; else a Wait handle is attached to every future
\* and the caller blocks on the handle's done event
wait(n, rpc_list) ==
    LET ready == {i \in 1..Len(rpc_list) : rpcs[n][rpc_list[i]].complete}
    IN
    /\ rpc_list # <<>>
    /\ \A i \in 1..Len(rpc_list) : rpc_list[i] \in DOMAIN rpcs[n]
    /\ IF ready # {}
       THEN /\ result' = [op |-> "wait", rc |-> "ok",
                          rpc |-> rpc_list[Min(ready)], rpc_list |-> rpc_list]
            /\ UNCHANGED <<rpcs, waits>>
       ELSE /\ Len(waits[n]) < MaxWaits
            /\ waits' = [waits EXCEPT ![n] = Append(@, new_wait(rpc_list))]
            /\ rpcs' = [rpcs EXCEPT ![n] = attach(@, Len(waits[n]) + 1, rpc_list)]
            /\ UNCHANGED result
    /\ UNCHANGED <<subVars, connVars, chan, sched, handled, pubs, rpc_counter,
                   inflight, by_peer, inflight_proxies, n_subops, n_sends, n_drops>>

\* wait.done.wait(timeout) returns True, the timeout having expired before
\* the event was set: WaitTimeout is raised
wait_timeout(n, w) ==
    /\ w \in 1..Len(waits[n])
    /\ waits[n][w].pos = "blocked"
    /\ ~waits[n][w].done
    /\ waits' = [waits EXCEPT ![n][w].pos = "timed_out"]
    /\ result' = [op |-> "wait", rc |-> "WaitTimeout", wait |-> w]
    /\ UNCHANGED <<subVars, connVars, chan, sched, handled, pubs, rpc_counter,
                   inflight, by_peer, rpcs, inflight_proxies,
                   n_subops, n_sends, n_drops>>

\* wait.done.wait(timeout) returns False, the event being set: the call
\* returns wait.completed_rpc
wait_return(n, w) ==
    /\ w \in 1..Len(waits[n])
    /\ waits[n][w].pos = "blocked"
    /\ waits[n][w].done
    /\ waits' = [waits EXCEPT ![n][w].pos = "returned"]
    /\ result' = [op |-> "wait", rc |-> "ok", rpc |-> waits[n][w].completed_rpc,
                  rpc_list |-> waits[n][w].counters]
    /\ UNCHANGED <<subVars, connVars, chan, sched, handled, pubs, rpc_counter,
                   inflight, by_peer, rpcs, inflight_proxies,
                   n_subops, n_sends, n_drops>>

\* the originator drops its last reference to a future: the entry leaves
\* the WeakValueDictionary (a blocked wait() still refers to its futures)
discard(n, counter) ==
    /\ counter \in DOMAIN rpcs[n]
    /\ \A w \in 1..Len(waits[n]) :
        waits[n][w].pos = "blocked" =>
            /\ \A i \in 1..Len(waits[n][w].counters) :
                    waits[n][w].counters[i] \notin {counter, Obj(counter)}
            /\ \A t \in DOMAIN waits[n][w].transfers :
                    counter \notin {t, waits[n][w].transfers[t]}
    /\ rpcs' = [rpcs EXCEPT ![n] = Drop(@, counter)]
    /\ UNCHANGED <<subVars, connVars, chan, sched, handled, pubs, result,
                   rpc_counter, inflight, by_peer, inflight_proxies, waits,
                   n_subops, n_sends, n_drops>>

\* Wait.transfer(source, target) on a handle whose caller is blocked: the
\* first entry of the handle's list that is source's counter is replaced by
\* the target future itself
transfer(n, w, source, target) ==
    LET wt == waits[n][w]
        hit == {i \in 1..Len(wt.counters) : wt.counters[i] = source}
        st1 == [client_state(n) EXCEPT
                    !.waits[w].counters =
                        IF hit = {} THEN @ ELSE [@ EXCEPT ![Min(hit)] = Obj(target)],
                    !.waits[w].transfers = (target :> source) @@ @,
                    !.rpcs[target].waits = Append(@, w)]
        st2 == IF st1.rpcs[target].complete THEN finish(st1, w, target) ELSE st1
    IN
    /\ w \in 1..Len(waits[n])
    /\ wt.pos = "blocked"
    /\ ~wt.finished
    /\ source \in DOMAIN rpcs[n]
    /\ target \in DOMAIN rpcs[n]
    /\ source # target
    /\ target \notin DOMAIN wt.transfers
    /\ rpcs' = [rpcs EXCEPT ![n] = st2.rpcs]
    /\ waits' = [waits EXCEPT ![n] = st2.waits]
    /\ result' = [op |-> "transfer", rc |-> st2.err]
    /\ UNCHANGED <<subVars, connVars, chan, sched, handled, pubs, rpc_counter,
                   inflight, by_peer, inflight_proxies, n_subops, n_sends, n_drops>>

(***************************************************************************)
(* Proxied RPCs: a client's requests through its hub.                      *)
(***************************************************************************)
\* ProxiedClient.expect
expect(st, peer, counter, target_count) ==
    IF counter \notin DOMAIN st.inflight THEN [st EXCEPT !.err = "KeyError"]
    ELSE LET st1 == [st EXCEPT !.inflight[counter] = @ + target_count]
         IN IF peer \notin DOMAIN st1.by_peer THEN [st1 EXCEPT !.err = "KeyError"]
            ELSE IF counter \notin DOMAIN st1.by_peer[peer]
            THEN [st1 EXCEPT !.err = "KeyError"]
            ELSE LET st2 == [st1 EXCEPT !.by_peer[peer][counter] = @ + target_count]
                 IN IF counter \notin DOMAIN st2.rpcs THEN st2
                    ELSE LET st3 == [st2 EXCEPT !.rpcs[counter] =
                                        rpc_expected(@, target_count)]
                         IN IF st3.inflight[counter] = 0
                            THEN complete(st3, counter)
                            ELSE st3

\* Dispatcher.send_proxied_rpc at a client: the request goes to its one peer
send_proxied_rpc(n, service, routing_id, method, singular) ==
    LET counter == rpc_counter[n]
        peer == CHOOSE c \in {peers[n][m] : m \in Nodes} : c # NoConn
        msg == [type |-> "PROXY_REQUEST", arity |-> 7, counter |-> counter,
                service |-> service, routing_id |-> routing_id,
                method |-> method, singular |-> singular]
        w == request(World(n), n, counter, <<peer>>, msg, NoHandler, FALSE, TRUE)
    IN
    /\ n_sends < MaxRpcs
    /\ \E m \in Nodes : peers[n][m] # NoConn
    /\ n_sends' = n_sends + 1
    /\ rpc_counter' = [rpc_counter EXCEPT ![n] = @ + 1]
    /\ Commit(n, w)
    /\ result' = [op |-> "send_proxied_rpc", rc |-> "RPC", node |-> n,
                  counter |-> counter]
    /\ UNCHANGED <<subVars, connVars, pubs, n_subops, n_drops>>

\* Dispatcher.incoming_proxy_request; `choice` is what select_peer returns
incoming_proxy_request(n, m, choice) ==
    LET msg == Head(chan[<<m, n>>])
        peer == peers[n][m]
        i == find_local_handler(n, MSG_TYPE_RPC_REQUEST, msg.service,
                                msg.routing_id, msg.method)
        found == IF i = 0 THEN NoHandler
                 ELSE HandlerAt(n, MSG_TYPE_RPC_REQUEST, msg.service, i, msg.method)
        schedule == i # 0 /\ ScheduleAt(n, MSG_TYPE_RPC_REQUEST, msg.service, i,
                                        msg.method)
        routes == PeerOf(find_peer_routes(n, MSG_TYPE_RPC_REQUEST, msg.service,
                                          msg.routing_id))
        count0 == Len(routes) + (IF i # 0 THEN 1 ELSE 0)
        select == count0 > 1 /\ msg.singular
        candidates == Append(routes, LocalTarget(n, 0))
        target == target_of(candidates, choice)
        \* after the selection
        handler == IF select /\ ~IsLocalTarget(target) THEN NoHandler ELSE found
        targets == IF ~select THEN routes
                   ELSE IF IsLocalTarget(target) THEN <<>> ELSE <<target>>
        count1 == IF select THEN 1 ELSE count0
        w0 == [World(n) EXCEPT !.chan[<<m, n>>] = Tail(@)]
        \* handle it locally
        w1 == IF handler = NoHandler THEN w0
              ELSE IF schedule
              THEN [w0 EXCEPT !.sched = Append(@, [kind |-> "rpc_handler",
                                        h |-> handler, peer |-> peer,
                                        counter |-> msg.counter, proxied |-> TRUE])]
              ELSE rpc_handler(w0, n, peer, msg.counter, handler, TRUE)
        \* forward it
        counter == rpc_counter[n]
        fwd == [type |-> "RPC_REQUEST", arity |-> 6, counter |-> counter,
                service |-> msg.service, routing_id |-> msg.routing_id,
                method |-> msg.method]
        w2 == IF targets = <<>> THEN w1
              ELSE [request(w1, n, counter, targets, fwd, NoHandler, FALSE, FALSE)
                        EXCEPT !.proxies = (counter :>
                                    [awaiting |-> Len(targets),
                                     client_counter |-> msg.counter,
                                     peer |-> peer]) @@ @]
        send_nomethod == /\ handler = NoHandler
                         /\ targets = <<>>
                         /\ locally_handles(n, MSG_TYPE_RPC_REQUEST, msg.service,
                                            msg.routing_id)
        count2 == IF send_nomethod THEN count1 + 1 ELSE count1
        w3 == [w2 EXCEPT !.chan = push(@, peer,
                    [type |-> "PROXY_RESPONSE_COUNT", arity |-> 2,
                     counter |-> msg.counter, target_count |-> count2])]
        w4 == IF ~send_nomethod THEN w3
              ELSE [w3 EXCEPT !.chan = push(@, peer,
                    [type |-> "PROXY_RESPONSE", arity |-> 3,
                     counter |-> msg.counter, rc |-> RPC_ERR_NOMETHOD,
                     result |-> None])]
    IN
    /\ Receives(n, m, "PROXY_REQUEST")
    /\ IF msg.arity = 7 /\ select THEN choice \in by_addr(candidates)
       ELSE choice = None
    /\ Commit(n, IF msg.arity # 7 THEN w0 ELSE w4)
    /\ rpc_counter' = IF msg.arity = 7 /\ targets # <<>>
                      THEN [rpc_counter EXCEPT ![n] = @ + 1] ELSE rpc_counter
    /\ UNCHANGED <<subVars, connVars, pubs, result, n_subops, n_sends, n_drops>>

\* Dispatcher.incoming_proxy_response at a client
incoming_proxy_response(n, m) ==
    LET msg == Head(chan[<<m, n>>])
        peer == peers[n][m]
        w0 == [World(n) EXCEPT !.chan[<<m, n>>] = Tail(@)]
        w == IF msg.arity # 3 \/ msg.counter \notin DOMAIN w0.st.inflight THEN w0
             ELSE [w0 EXCEPT !.st = response(@, IsClient(n), peer, msg.counter,
                                             msg.rc, msg.result)]
    IN
    /\ Receives(n, m, "PROXY_RESPONSE")
    /\ Commit(n, w)
    /\ result' = IF w.st.err = "ok" THEN result
                 ELSE [op |-> "incoming_proxy_response", rc |-> w.st.err]
    /\ UNCHANGED <<subVars, connVars, pubs, rpc_counter, n_subops, n_sends, n_drops>>

\* Dispatcher.incoming_proxy_response_count at a client
incoming_proxy_response_count(n, m) ==
    LET msg == Head(chan[<<m, n>>])
        peer == peers[n][m]
        w0 == [World(n) EXCEPT !.chan[<<m, n>>] = Tail(@)]
        w == IF msg.arity # 2 THEN w0
             ELSE [w0 EXCEPT !.st = expect(@, peer, msg.counter, msg.target_count)]
    IN
    /\ IsClient(n)
    /\ Receives(n, m, "PROXY_RESPONSE_COUNT")
    /\ Commit(n, w)
    /\ result' = IF w.st.err = "ok" THEN result
                 ELSE [op |-> "incoming_proxy_response_count", rc |-> w.st.err]
    /\ UNCHANGED <<subVars, connVars, pubs, rpc_counter, n_subops, n_sends, n_drops>>

\* ProxiedClient.recipient_count (Client.rpc_receiver_count /
\* publish_receiver_count): the query goes to the client's hub and one
\* response is expected
recipient_count(n, msg_type, service, routing_id, method) ==
    LET counter == rpc_counter[n]
        target == CHOOSE c \in {peers[n][m] : m \in Nodes} : c # NoConn
        w == World(n)
        msg == [type |-> "PROXY_QUERY_COUNT", arity |-> 5, counter |-> counter,
                msg_type |-> msg_type, service |-> service,
                routing_id |-> routing_id, method |-> method]
        st1 == proxied_sent(w.st, counter, {target})
        st2 == [st1 EXCEPT !.rpcs = (counter :> new_rpc(counter, 1, {target.ident})) @@ @]
    IN
    /\ IsClient(n)
    /\ \E m \in Nodes : peers[n][m] # NoConn
    /\ n_sends' = n_sends + 1
    /\ UNCHANGED <<subVars, connVars, pubs, n_subops, n_drops>>
    /\ IF IsUp(target)
       THEN /\ rpc_counter' = [rpc_counter EXCEPT ![n] = @ + 1]
            /\ Commit(n, [w EXCEPT !.chan = push(@, target, msg),
                                   !.st = expect(st2, target, counter, 1)])
            /\ result' = [op |-> "recipient_count", rc |-> "RPC", node |-> n,
                          counter |-> counter]
       ELSE /\ UNCHANGED <<chan, sched, handled, rpcVars>>
            /\ result' = [op |-> "recipient_count", rc |-> "Unroutable"]

\* Dispatcher.incoming_proxy_query_count
incoming_proxy_query_count(n, m) ==
    LET msg == Head(chan[<<m, n>>])
        local == find_local_handler(n, msg.msg_type, msg.service, msg.routing_id,
                                    msg.method)
        target_count == (IF local # 0 THEN 1 ELSE 0)
                        + Len(find_peer_routes(n, msg.msg_type, msg.service,
                                               msg.routing_id))
        rest == [chan EXCEPT ![<<m, n>>] = Tail(@)]
    IN
    /\ Receives(n, m, "PROXY_QUERY_COUNT")
    /\ chan' = IF msg.arity # 5 THEN rest
               ELSE push(rest, peers[n][m],
                         [type |-> "PROXY_RESPONSE", arity |-> 3,
                          counter |-> msg.counter, rc |-> RPC_OK,
                          result |-> target_count])
    /\ UNCHANGED <<subVars, connVars, sched, handled, pubs, result, rpcVars,
                   n_subops, n_sends, n_drops>>

\* what incoming_proxy_response_count and incoming_proxy_response do to the
\* client's rpc client, message by message
client_incoming(st, peer, msg) ==
    IF msg.type = "PROXY_RESPONSE_COUNT"
    THEN IF msg.arity # 2 THEN st
         ELSE expect(st, peer, msg.counter, msg.target_count)
    ELSE IF msg.arity # 3 \/ msg.counter \notin DOMAIN st.inflight THEN st
         ELSE response(st, TRUE, peer, msg.counter, msg.rc, msg.result)

RECURSIVE client_incoming_all(_, _, _)
client_incoming_all(st, peer, msgs) ==
    IF msgs = <<>> \/ st.err # "ok" THEN st
    ELSE client_incoming_all(client_incoming(st, peer, Head(msgs)), peer, Tail(msgs))

(***************************************************************************)
(* The system.                                                             *)
(***************************************************************************)
Init ==
    /\ local_subs = [n \in Nodes |-> [key \in Keys |-> <<>>]]
    /\ peer_subs = [n \in Nodes |-> [key \in Keys |-> <<>>]]
    /\ peers = [n \in Nodes |-> [m \in Nodes |-> NoConn]]
    /\ conn_state = [c \in Conns |-> "none"]
    /\ established = [c \in Conns |-> FALSE]
    /\ reconnecting = [n \in Nodes |-> [m \in Nodes |-> NoConn]]
    /\ chan = [l \in Links |-> <<>>]
    /\ sched = [n \in Nodes |-> <<>>]
    /\ handled = <<>>
    /\ pubs = <<>>
    /\ result = [op |-> "init", rc |-> "ok"]
    /\ rpc_counter = [n \in Nodes |-> 1]
    /\ inflight = [n \in Nodes |-> <<>>]
    /\ by_peer = [n \in Nodes |-> <<>>]
    /\ rpcs = [n \in Nodes |-> <<>>]
    /\ inflight_proxies = [n \in Nodes |-> <<>>]
    /\ waits = [n \in Nodes |-> <<>>]
    /\ n_subops = 0
    /\ n_sends = 0
    /\ n_drops = 0

(***************************************************************************)
(* Hubs A and B subscribe to publishes, connect, and then publish to each   *)
(* other: subscriptions and connections change only before the publish.    *)
(***************************************************************************)
PubHubs == {"A", "B"}

\* the predicates subscribed to: everything, and the odd routing ids
PubPredicates == {<<0, 0>>, <<1, 1>>}

\* A's handlers run inline, B's are scheduled
PubSchedule(n) == n = "B"

AddLocalPub ==
    /\ n_sends = 0
    /\ \E n \in PubHubs, p \in PubPredicates, method \in Methods :
        add_local_subscription(n, MSG_TYPE_PUBLISH, "s1", p[1], p[2], method,
                               PubSchedule(n))

ConnectPub == n_sends = 0 /\ Connect("A", "B")

StorePeerPub == \E n \in PubHubs, m \in PubHubs : store_peer(n, m)

DropPeerPub == n_sends = 0 /\ \E n \in PubHubs, m \in PubHubs : drop_peer(n, m)

IncomingAnnouncePub == \E n \in PubHubs, m \in PubHubs : incoming_announce(n, m)

IncomingPublishPub == \E n \in PubHubs, m \in PubHubs : incoming_publish(n, m)

RunPublishHandlerPub == \E n \in PubHubs : run_publish_handler(n)

SendPublishPub ==
    /\ n_sends < MaxSends
    /\ \E n \in PubHubs, service \in Services, routing_id \in RoutingIds,
       method \in Methods :
        send_publish(n, service, routing_id, method, FALSE, None)

NextPub ==
    \/ AddLocalPub
    \/ ConnectPub
    \/ StorePeerPub
    \/ DropPeerPub
    \/ IncomingAnnouncePub
    \/ IncomingPublishPub
    \/ RunPublishHandlerPub
    \/ SendPublishPub

SpecPub == Init /\ [][NextPub]_vars

(***************************************************************************)
(* Hub A registers and removes subscriptions of both message types while   *)
(* it connects to hub B.                                                   *)
(***************************************************************************)
SubHubs == {"A", "B"}

AddLocalSubs ==
    \E msg_type \in {MSG_TYPE_PUBLISH, MSG_TYPE_RPC_REQUEST},
       mask \in Masks, value \in Masks, method \in Methods :
        add_local_subscription("A", msg_type, "s1", mask, value, method, FALSE)

RemoveLocalSubs ==
    \E msg_type \in {MSG_TYPE_PUBLISH, MSG_TYPE_RPC_REQUEST},
       mask \in Masks, value \in Masks :
        remove_local_subscription("A", msg_type, "s1", mask, value)

ConnectSubs == Connect("A", "B")

StorePeerSubs == \E n \in SubHubs, m \in SubHubs : store_peer(n, m)

IncomingAnnounceSubs == \E n \in SubHubs, m \in SubHubs : incoming_announce(n, m)

IncomingUnsubscribeSubs == \E n \in SubHubs, m \in SubHubs : incoming_unsubscribe(n, m)

NextSubs ==
    \/ AddLocalSubs
    \/ RemoveLocalSubs
    \/ ConnectSubs
    \/ StorePeerSubs
    \/ IncomingAnnounceSubs
    \/ IncomingUnsubscribeSubs

SpecSubs == Init /\ [][NextSubs]_vars

(***************************************************************************)
(* Hubs A, B and C register rpc handlers and connect in a star around A;   *)
(* then A issues rpcs while its peers answer and connections go down.      *)
(***************************************************************************)
\* A's handlers are scheduled or run inline, B's run inline, C's are scheduled
RpcSchedules(n) == IF n = "A" THEN BOOLEAN ELSE {n = "C"}

\* C handles every routing id, A and B may also handle the odd ones only
RpcPredicates(n) == IF n = "C" THEN {<<0, 0>>} ELSE PubPredicates

NoneConnected == \A c \in Conns : conn_state[c] = "none"

\* no handshake is under way
NoneHandshaking == \A c \in Conns : conn_state[c] # "handshaking"

AddLocalRpc ==
    /\ NoneConnected
    /\ \E n \in Hubs : \E p \in RpcPredicates(n), schedule \in RpcSchedules(n) :
            add_local_subscription(n, MSG_TYPE_RPC_REQUEST, "s1", p[1], p[2],
                                   "m1", schedule)

SendRpc ==
    /\ NoneHandshaking
    /\ \E routing_id \in RoutingIds, singular \in BOOLEAN,
          choice \in {None} \cup Hubs :
            send_rpc("A", "s1", routing_id, "m1", singular, choice)

NextRpc ==
    \/ AddLocalRpc
    \/ n_sends = 0 /\ \E m \in {"B", "C"} : Connect("A", m)
    \/ \E n \in Hubs, m \in Hubs : store_peer(n, m)
    \/ SendRpc
    \/ \E n \in Hubs, m \in Hubs : incoming_rpc_request(n, m)
    \/ \E n \in Hubs : run_rpc_handler(n)
    \/ \E m \in Hubs : incoming_rpc_response("A", m)
    \/ drop_peer("A", "B")

SpecRpc == Init /\ [][NextRpc]_vars

(***************************************************************************)
(* Client K issues rpcs through hub A, which handles them itself and       *)
(* forwards them to hub B; the connections K-A and A-B may go down.        *)
(***************************************************************************)
\* A's handlers are scheduled or run inline, B's run inline
AddLocalProxy ==
    /\ NoneConnected
    /\ \E n \in {"A", "B"} : \E p \in RpcPredicates(n), schedule \in RpcSchedules(n) :
            add_local_subscription(n, MSG_TYPE_RPC_REQUEST, "s1", p[1], p[2],
                                   "m1", schedule)

SendProxied ==
    /\ NoneHandshaking
    /\ \E routing_id \in RoutingIds, singular \in BOOLEAN :
            send_proxied_rpc("K", "s1", routing_id, "m1", singular)

NextProxy ==
    \/ AddLocalProxy
    \/ n_sends = 0 /\ (Connect("K", "A") \/ Connect("A", "B"))
    \/ \E n \in Nodes, m \in Nodes : store_peer(n, m)
    \/ SendProxied
    \/ \E choice \in {None} \cup Hubs : incoming_proxy_request("A", "K", choice)
    \/ incoming_rpc_request("B", "A")
    \/ run_rpc_handler("A")
    \/ incoming_rpc_response("A", "B")
    \/ incoming_proxy_response_count("K", "A")
    \/ incoming_proxy_response("K", "A")
    \/ drop_peer("K", "A")
    \/ drop_peer("A", "B")

SpecProxy == Init /\ [][NextProxy]_vars

(***************************************************************************)
(* Hub A proxies the rpcs of client K: it handles them itself and forwards *)
(* them to hubs B and C, whose connections may go down.  The client leaves *)
(* what the hub sends it in the queue, which so holds all that was sent.   *)
(***************************************************************************)
\* the handlers registered, as (mask, value, method, schedule): A handles
\* every routing id, inline or scheduled; B handles every routing id or the
\* odd ones, inline; C handles every routing id, inline
HubSubscriptions(n) ==
    IF n = "A" THEN {<<0, 0, "m1", TRUE>>, <<0, 0, "m1", FALSE>>, <<0, 0, "m2", FALSE>>}
    ELSE IF n = "B" THEN {<<0, 0, "m1", FALSE>>, <<1, 1, "m1", FALSE>>,
                          <<1, 1, "m2", FALSE>>}
    ELSE {<<0, 0, "m1", FALSE>>}

\* the hubs register one after the other: A, then B, then C, and each
\* registers a method once
RegistersAfter(n) ==
    IF n = "A" THEN {"B", "C"} ELSE IF n = "B" THEN {"C"} ELSE {}

AddLocalHub ==
    /\ NoneConnected
    /\ \E n \in Hubs : \E s \in HubSubscriptions(n) :
        /\ \A m \in RegistersAfter(n) : \A key \in Keys :
                local_subs[m][key] = <<>>
        /\ \A b \in Buckets(n, <<MSG_TYPE_RPC_REQUEST, "s1">>) :
                s[3] \notin DOMAIN b.handlers
        /\ add_local_subscription(n, MSG_TYPE_RPC_REQUEST, "s1", s[1], s[2],
                                  s[3], s[4])

\* one handshake at a time, the client's first and then B's and C's, all of
\* them before the first request
ConnectHub ==
    /\ n_sends = 0
    /\ NoneHandshaking
    /\ \/ Connect("K", "A")
       \/ IsUp(peers["A"]["K"]) /\ Connect("A", "B")
       \/ IsUp(peers["A"]["B"]) /\ Connect("A", "C")

\* the client sends its next request once the hub has taken the last one;
\* its first request may be singular
SendHub ==
    /\ chan[<<"K", "A">>] = <<>>
    /\ NoneHandshaking
    /\ \E routing_id \in RoutingIds, singular \in BOOLEAN :
        /\ singular => n_sends = 0
        /\ send_proxied_rpc("K", "s1", routing_id, "m1", singular)

\* an upstream connection goes down once the client has sent a request
DropHub == n_sends > 0 /\ \E m \in {"B", "C"} : drop_peer("A", m)

NextHub ==
    \/ AddLocalHub
    \/ ConnectHub
    \/ \E n \in Nodes, m \in Nodes : store_peer(n, m)
    \/ SendHub
    \/ \E choice \in {None} \cup Hubs : incoming_proxy_request("A", "K", choice)
    \/ \E m \in {"B", "C"} : incoming_rpc_request(m, "A")
    \/ \E n \in Hubs : run_rpc_handler(n)
    \/ \E m \in {"B", "C"} : incoming_rpc_response("A", m)
    \/ DropHub

SpecHub == Init /\ [][NextHub]_vars

(***************************************************************************)
(* Hubs A and B subscribe and then dial each other: each end sees up to    *)
(* two sockets for the other's ident, completing in either order.          *)
(***************************************************************************)
PeerHubs == {"A", "B"}

AddLocalPeers ==
    /\ NoneConnected
    /\ \E n \in PeerHubs, p \in PubPredicates, method \in Methods,
          msg_type \in {MSG_TYPE_PUBLISH, MSG_TYPE_RPC_REQUEST} :
        add_local_subscription(n, msg_type, "s1", p[1], p[2], method, FALSE)

ConnectPeers == \E n \in PeerHubs, m \in PeerHubs : Connect(n, m)

StorePeerPeers == \E n \in PeerHubs, m \in PeerHubs : store_peer(n, m)

DropPeerPeers == \E n \in PeerHubs, m \in PeerHubs : drop_peer(n, m)

NextPeers ==
    \/ AddLocalPeers
    \/ ConnectPeers
    \/ StorePeerPeers
    \/ DropPeerPeers

SpecPeers == Init /\ [][NextPeers]_vars

(***************************************************************************)
(* Hub A sends rpcs to the handlers of hubs B and C, waits on the futures  *)
(* with timeouts and discards futures, while the responses arrive and the  *)
(* connection to B may go down.                                            *)
(***************************************************************************)
\* the lists of futures a caller waits on
WaitLists == {<<1>>, <<2>>, <<2, 1>>}

AddLocalFutures ==
    /\ NoneConnected
    /\ \E n \in {"B", "C"} :
        /\ local_subs[n][<<MSG_TYPE_RPC_REQUEST, "s1">>] = <<>>
        /\ add_local_subscription(n, MSG_TYPE_RPC_REQUEST, "s1", 0, 0, "m1", n = "C")

ConnectFutures ==
    /\ n_sends = 0
    /\ NoneHandshaking
    /\ \E m \in {"B", "C"} : Connect("A", m)

SendFutures ==
    /\ NoneHandshaking
    /\ \A m \in {"B", "C"} : conn_state[Conn("A", m, 1)] # "none"
    /\ send_rpc("A", "s1", 0, "m1", FALSE, None)

NextFutures ==
    \/ AddLocalFutures
    \/ ConnectFutures
    \/ \E n \in Hubs, m \in Hubs : store_peer(n, m)
    \/ SendFutures
    \/ \E m \in {"B", "C"} : incoming_rpc_request(m, "A")
    \/ run_rpc_handler("C")
    \/ \E m \in {"B", "C"} : incoming_rpc_response("A", m)
    \/ drop_peer("A", "B")
    \/ \E rpc_list \in WaitLists : wait("A", rpc_list)
    \/ \E w \in 1..MaxWaits : wait_timeout("A", w)
    \/ \E w \in 1..MaxWaits : wait_return("A", w)
    \/ \E counter \in 1..MaxRpcs : discard("A", counter)

SpecFutures == Init /\ [][NextFutures]_vars

(***************************************************************************)
(* Hub B serves rpcs of hub A with handlers that return, raise or return   *)
(* what cannot be serialized; A has handlers of its own, and B may remove  *)
(* a subscription while requests are on their way.                         *)
(***************************************************************************)
\* the (mask, value, method, schedule) a hub may register for service s1
ServeSubscriptions(n) ==
    IF n = "A" THEN {<<0, 0, "m1", FALSE>>, <<0, 0, "m4", TRUE>>}
    ELSE {<<0, 0, "m1", FALSE>>, <<1, 1, "m2", TRUE>>,
          <<0, 0, "m3", TRUE>>, <<1, 1, "m4", FALSE>>}

AddLocalServe ==
    /\ NoneConnected
    /\ \E n \in {"A", "B"} : \E s \in ServeSubscriptions(n) :
        /\ n = "A" => \A key \in Keys : local_subs["B"][key] = <<>>
        /\ add_local_subscription(n, MSG_TYPE_RPC_REQUEST, "s1",
                                  s[1], s[2], s[3], s[4])

RemoveLocalServe ==
    /\ IsUp(peers["B"]["A"])
    /\ \E p \in PubPredicates :
        remove_local_subscription("B", MSG_TYPE_RPC_REQUEST, "s1", p[1], p[2])

ConnectServe == n_sends = 0 /\ Connect("A", "B")

SendServe ==
    /\ NoneHandshaking
    /\ \E routing_id \in RoutingIds, method \in HandlerMethods :
        send_rpc("A", "s1", routing_id, method, FALSE, None)

NextServe ==
    \/ AddLocalServe
    \/ RemoveLocalServe
    \/ ConnectServe
    \/ \E n \in {"A", "B"}, m \in {"A", "B"} : store_peer(n, m)
    \/ SendServe
    \/ incoming_unsubscribe("A", "B")
    \/ incoming_rpc_request("B", "A")
    \/ \E n \in {"A", "B"} : run_rpc_handler(n)
    \/ incoming_rpc_response("A", "B")

SpecServe == Init /\ [][NextServe]_vars

(***************************************************************************)
(* Hubs A and B and client K of hub A publish several times to the         *)
(* handlers of A (inline) and B (scheduled).                               *)
(***************************************************************************)
NextOrder ==
    \/ /\ NoneConnected
       /\ \E n \in PubHubs, p \in PubPredicates :
            add_local_subscription(n, MSG_TYPE_PUBLISH, "s1", p[1], p[2], "m1",
                                   PubSchedule(n))
    \/ n_sends = 0 /\ (Connect("K", "A") \/ Connect("A", "B"))
    \/ \E n \in Nodes, m \in Nodes : store_peer(n, m)
    \/ /\ n_sends < MaxPublishes
       /\ \A l \in {<<"A", "B">>, <<"B", "A">>, <<"K", "A">>, <<"A", "K">>} :
            IsUp(peers[l[1]][l[2]])
       /\ \E routing_id \in RoutingIds :
            \/ \E n \in PubHubs, singular \in BOOLEAN, choice \in {None} \cup PubHubs :
                /\ ~singular => choice = None
                /\ send_publish(n, "s1", routing_id, "m1", singular, choice)
            \/ \E singular \in BOOLEAN :
                send_proxied_publish("K", "s1", routing_id, "m1", singular)
    \/ \E choice \in {None} \cup PubHubs : incoming_proxy_publish("A", "K", choice)
    \/ \E n \in PubHubs, m \in PubHubs : incoming_publish(n, m)
    \/ \E n \in PubHubs : run_publish_handler(n)

SpecOrder == Init /\ [][NextOrder]_vars

(***************************************************************************)
(* Hub A, with client K, streams chunked publishes to hub B and to itself. *)
(***************************************************************************)
\* the lazy sequences published
ChunkLists == {<<>>, <<1>>, <<1, 2>>, <<2, 1>>}

NextWire ==
    \/ /\ NoneConnected
       /\ \E n \in PubHubs, p \in PubPredicates :
            /\ local_subs[n][<<MSG_TYPE_PUBLISH, "s1">>] = <<>>
            /\ add_local_subscription(n, MSG_TYPE_PUBLISH, "s1", p[1], p[2], "m1",
                                      PubSchedule(n))
    \/ n_sends = 0 /\ (Connect("K", "A") \/ Connect("A", "B"))
    \/ \E n \in Nodes, m \in Nodes : store_peer(n, m)
    \/ /\ n_sends < MaxSends
       /\ NoneHandshaking
       /\ \E routing_id \in RoutingIds, chunks \in ChunkLists :
            send_chunked_publish("A", "s1", routing_id, "m1", chunks)
    \/ \E n \in PubHubs, m \in PubHubs : incoming_unrecognized(n, m)

SpecWire == Init /\ [][NextWire]_vars

(***************************************************************************)
(* Client K asks its hub A how many receivers an rpc would have, while A   *)
(* and hub B hold rpc handlers and the connection A-B may go down.         *)
(***************************************************************************)
NextCount ==
    \/ /\ NoneConnected
       /\ \E n \in PubHubs, p \in PubPredicates, method \in Methods :
            add_local_subscription(n, MSG_TYPE_RPC_REQUEST, "s1", p[1], p[2],
                                   method, FALSE)
    \/ n_sends = 0 /\ (Connect("K", "A") \/ Connect("A", "B"))
    \/ \E n \in Nodes, m \in Nodes : store_peer(n, m)
    \/ /\ NoneHandshaking /\ n_sends < MaxRpcs
       /\ \E routing_id \in RoutingIds, method \in Methods :
            recipient_count("K", MSG_TYPE_RPC_REQUEST, "s1", routing_id, method)
    \/ incoming_proxy_query_count("A", "K")
    \/ incoming_proxy_response("K", "A")
    \/ drop_peer("A", "B")

SpecCount == Init /\ [][NextCount]_vars

(***************************************************************************)
(* Hub A, with upstream hubs B and C and client K, receives responses it   *)
(* does not await, malformed messages and messages of unknown types while  *)
(* its own rpcs and the client's are in flight.                            *)
(***************************************************************************)
\* a payload of the wrong arity for a message of `type`
Malformed(type) ==
    [type |-> type, arity |-> 0, counter |-> 1, rc |-> RPC_OK, result |-> None,
     msg_type |-> MSG_TYPE_RPC_REQUEST, service |-> "s1", routing_id |-> 0,
     method |-> "m1", mask |-> 0, value |-> 0, singular |-> FALSE, args |-> 0,
     target_count |-> 1]

\* what the peer m of n may send n unasked: a response to a counter of its
\* choice, and the malformed and unknown messages
StrayMessages(m, n) ==
    IF n = "K" THEN {Malformed("PROXY_RESPONSE"), Malformed("PROXY_RESPONSE_COUNT")}
    ELSE IF m = "K"
    THEN {Malformed("PROXY_PUBLISH"), Malformed("PROXY_REQUEST"),
          Malformed("PROXY_QUERY_COUNT")}
    ELSE {[type |-> "RPC_RESPONSE", arity |-> 3, counter |-> c, rc |-> RPC_OK,
           result |-> "stray"] : c \in 1..MaxRpcs}
         \cup (IF m = "B"
               THEN {Malformed("ANNOUNCE"), Malformed("UNSUBSCRIBE"),
                     Malformed("PUBLISH"), Malformed("RPC_REQUEST"),
                     Malformed("RPC_RESPONSE"), Malformed("UNKNOWN")}
               ELSE {})

\* the peer at the other end of a connection sends a message of its own
peer_sends(m, n, msg) ==
    /\ IsUp(peers[m][n]) /\ IsUp(peers[n][m])
    /\ chan[<<m, n>>] = <<>>
    /\ chan' = [chan EXCEPT ![<<m, n>>] = <<msg>>]
    /\ UNCHANGED <<subVars, connVars, sched, handled, pubs, result, rpcVars,
                   n_subops, n_sends, n_drops>>

NextStray ==
    \/ /\ NoneConnected
       /\ local_subs["B"][<<MSG_TYPE_RPC_REQUEST, "s1">>] = <<>>
       /\ add_local_subscription("B", MSG_TYPE_RPC_REQUEST, "s1", 0, 0, "m1", FALSE)
    \/ ConnectHub
    \/ \E n \in Nodes, m \in Nodes : store_peer(n, m)
    \/ /\ NoneHandshaking
       /\ \/ send_rpc("A", "s1", 0, "m1", FALSE, None)
          \/ send_proxied_rpc("K", "s1", 0, "m1", FALSE)
    \/ /\ n_sends > 0
       /\ \E l \in {<<"B", "A">>, <<"C", "A">>, <<"K", "A">>, <<"A", "K">>} :
            \E msg \in StrayMessages(l[1], l[2]) :
                /\ msg.arity = 0 => chan[<<"A", "K">>] = <<>>
                /\ peer_sends(l[1], l[2], msg)
    \/ incoming_announce("A", "B")
    \/ incoming_unsubscribe("A", "B")
    \/ incoming_publish("A", "B")
    \/ incoming_rpc_request("A", "B")
    \/ incoming_unrecognized("A", "B")
    \/ \E m \in {"B", "C"} : incoming_rpc_response("A", m)
    \/ incoming_proxy_publish("A", "K", None)
    \/ incoming_proxy_request("A", "K", None)
    \/ incoming_proxy_query_count("A", "K")
    \/ incoming_rpc_request("B", "A")
    \/ incoming_proxy_response("K", "A")
    \/ incoming_proxy_response_count("K", "A")

SpecStray == Init /\ [][NextStray]_vars

(***************************************************************************)
(* Hubs A and B register publish subscriptions and connect; the connection *)
(* A dialled fails at A, which starts to reconnect, and B dials A.         *)
(***************************************************************************)
NextReconnect ==
    \/ \E n \in PeerHubs, p \in PubPredicates :
        add_local_subscription(n, MSG_TYPE_PUBLISH, "s1", p[1], p[2], "m1", FALSE)
    \/ \E n \in PeerHubs, m \in PeerHubs : Connect(n, m)
    \/ \E n \in PeerHubs, m \in PeerHubs : store_peer(n, m)
    \/ \E n \in PeerHubs, m \in PeerHubs : incoming_announce(n, m)
    \/ go_down("A", "B", TRUE)

SpecReconnect == Init /\ [][NextReconnect]_vars

(***************************************************************************)
(* Hub A registers one method under predicates of two bits.                *)
(***************************************************************************)
WideMasks == 0..3

NextOverlap ==
    \E mask \in WideMasks, value \in WideMasks :
        add_local_subscription("A", MSG_TYPE_PUBLISH, "s1", mask, value, "m1", FALSE)

SpecOverlap == Init /\ [][NextOverlap]_vars

(***************************************************************************)
(* Hubs A and B dial each other, and drop_peer is also called for a        *)
(* connection that lost the resolution.                                    *)
(***************************************************************************)
NextDrop ==
    \/ AddLocalPeers
    \/ ConnectPeers
    \/ StorePeerPeers
    \/ DropPeerPeers
    \/ \E n \in PeerHubs, m \in PeerHubs, k \in ConnSerials :
        drop_peer_down(n, Conn(n, m, k))

SpecDrop == Init /\ [][NextDrop]_vars

(***************************************************************************)
(* Hub A sends two rpcs to hub B, waits on the first or on both, and the   *)
(* second future takes the place of the first in the handle.               *)
(***************************************************************************)
NextTransfer ==
    \/ /\ NoneConnected
       /\ local_subs["B"][<<MSG_TYPE_RPC_REQUEST, "s1">>] = <<>>
       /\ add_local_subscription("B", MSG_TYPE_RPC_REQUEST, "s1", 0, 0, "m1", FALSE)
    \/ Connect("A", "B")
    \/ \E n \in PeerHubs, m \in PeerHubs : store_peer(n, m)
    \/ NoneHandshaking /\ send_rpc("A", "s1", 0, "m1", FALSE, None)
    \/ incoming_rpc_request("B", "A")
    \/ incoming_rpc_response("A", "B")
    \/ \E rpc_list \in {<<1>>, <<1, 2>>, <<2, 1>>} : wait("A", rpc_list)
    \/ \E w \in 1..MaxWaits : transfer("A", w, 1, 2)
    \/ \E w \in 1..MaxWaits : wait_return("A", w)
    \/ \E counter \in 1..MaxRpcs : discard("A", counter)

SpecTransfer == Init /\ [][NextTransfer]_vars

(***************************************************************************)
(* The claims.                                                             *)
(***************************************************************************)
\* C1: any two stored local subscriptions with the same (msg_type, service,
\* method) have disjoint predicate sets: no routing_id matches both of their
\* (mask, value) predicates.
C1_SameMethodDisjoint ==
    \A n \in Nodes, key \in Keys :
        \A i, j \in 1..Len(local_subs[n][key]) :
            LET a == local_subs[n][key][i]
                b == local_subs[n][key][j]
            IN (i # j /\ DOMAIN a.handlers \cap DOMAIN b.handlers # {}) =>
                    ~\E routing_id \in RoutingIds :
                        /\ BitAnd(routing_id, a.mask) = a.value
                        /\ BitAnd(routing_id, b.mask) = b.value

\* every stored local subscription has value & ~mask == 0
AllStoredPossible ==
    \A n \in Nodes, key \in Keys : \A b \in Buckets(n, key) :
        AndNot(b.value, b.mask) = 0

\* a call with value & ~mask != 0 raises ImpossibleSubscription, stores
\* nothing and pushes nothing (over the calls hub A makes)
ImpossibleAddFails ==
    n_subops' # n_subops =>
    \A msg_type \in {MSG_TYPE_PUBLISH, MSG_TYPE_RPC_REQUEST},
       mask \in Masks, value \in Masks, method \in Methods :
        (/\ AndNot(value, mask) # 0
         /\ add_local_subscription("A", msg_type, "s1", mask, value, method,
                                   FALSE))
        => /\ result'.rc = "ImpossibleSubscription"
           /\ local_subs' = local_subs
           /\ chan' = chan

\* C2: every stored local subscription satisfies value & ~mask == 0 in every
\* reachable state, and add_local_subscription called with value & ~mask != 0
\* fails with ImpossibleSubscription, stores nothing and announces nothing.
C2_NoImpossibleStored == []AllStoredPossible /\ [][ImpossibleAddFails]_vars

\* an impossible subscription was just refused by a hub that holds
\* subscriptions and has an up peer to announce to
C2_Witness ==
    /\ result.rc = "ImpossibleSubscription"
    /\ \E key \in Keys : local_subs["A"][key] # <<>>
    /\ IsUp(peers["A"]["B"])

\* publish p has been sent and handled everywhere it went
PublishDone(p) ==
    /\ \A l \in Links : \A i \in 1..Len(chan[l]) :
            chan[l][i].type = "PUBLISH" => chan[l][i].args # p
    /\ \A n \in Nodes : \A i \in 1..Len(sched[n]) :
            sched[n][i].kind = "publish_handler" => sched[n][i].arg # p

\* the handlers that ran for publish p
InvokedFor(p) ==
    {[x \in DOMAIN handled[i] \ {"arg"} |-> handled[i][x]] :
        i \in {k \in 1..Len(handled) :
                /\ handled[k].msg_type = MSG_TYPE_PUBLISH
                /\ handled[k].arg = p}}

\* the publisher and the peers it is connected to, both ends up
Reach(n) == {n} \cup {m \in Nodes : IsUp(peers[n][m]) /\ IsUp(peers[m][n])}

\* the registered publish handlers a publish matches
MatchingHandlers(pb) ==
    {[node |-> m, msg_type |-> MSG_TYPE_PUBLISH, service |-> pb.service,
      mask |-> b.mask, value |-> b.value, method |-> pb.method] :
        <<m, b>> \in {x \in Reach(pb.node) \X
                        UNION {Buckets(k, <<MSG_TYPE_PUBLISH, pb.service>>) :
                                    k \in Nodes} :
                        /\ x[2] \in Buckets(x[1], <<MSG_TYPE_PUBLISH, pb.service>>)
                        /\ BitAnd(pb.routing_id, x[2].mask) = x[2].value
                        /\ pb.method \in DOMAIN x[2].handlers}}

\* C3: for a publish issued by a hub (with every announcement received), the
\* set of handlers invoked on the publisher and on its connected up peers is
\* exactly the set of registered publish handlers whose service, predicate
\* and method match.
C3_InvokedExactlyMatching ==
    \A p \in 1..Len(pubs) :
        (pubs[p].quiet /\ ~pubs[p].singular /\ PublishDone(p)) =>
            InvokedFor(p) = MatchingHandlers(pubs[p])

\* the up peers of n with at least one matching peer subscription
MatchingUpPeers(n, msg_type, service, routing_id) ==
    {m \in Nodes :
        /\ IsUp(peers[n][m])
        /\ \E i \in 1..Len(peer_subs[n][<<msg_type, service>>]) :
            LET e == peer_subs[n][<<msg_type, service>>][i]
            IN e.peer = peers[n][m] /\ BitAnd(routing_id, e.mask) = e.value}

\* C4: a non-singular publish sends exactly one PUBLISH message to each up
\* peer that has at least one matching peer subscription, and none to any
\* other peer, also when a peer has announced several matching predicates.
C4_OnePublishPerMatchingPeer ==
    [][Len(pubs') = Len(pubs) + 1 =>
        LET pb == pubs'[Len(pubs')]
        IN ~pb.singular =>
            \A m \in Nodes :
                Len(chan'[<<pb.node, m>>]) - Len(chan[<<pb.node, m>>]) =
                    IF m \in MatchingUpPeers(pb.node, MSG_TYPE_PUBLISH,
                                             pb.service, pb.routing_id)
                    THEN 1 ELSE 0]_vars

\* the idents whose response the future has been handed
Responded(rpc) == {rpc.results[i].ident : i \in 1..Len(rpc.results)}

\* C5: for an RPC a hub issued to the target idents T, the future is complete
\* exactly when a response (real or LOST_CONN) has been processed for every
\* ident of T, one per ident; it is completed at most once, and exactly when
\* it is complete its in-flight record is gone (until then the record holds
\* the idents still awaited).
C5_CompleteIffAllResponded ==
    \A n \in Hubs : \A c \in DOMAIN rpcs[n] :
        LET rpc == rpcs[n][c]
        IN /\ rpc.complete <=> rpc.targets \subseteq Responded(rpc)
           /\ Responded(rpc) \subseteq rpc.targets
           /\ Len(rpc.results) = Cardinality(Responded(rpc))
           /\ rpc.completions = (IF rpc.complete THEN 1 ELSE 0)
           /\ rpc.complete <=> c \notin DOMAIN inflight[n]
           /\ ~rpc.complete => inflight[n][c] = rpc.targets \ Responded(rpc)

\* an RPC to two or more idents is complete, one of them answered and another
\* one was lost
C5_Witness ==
    \E c \in DOMAIN rpcs["A"] :
        LET rpc == rpcs["A"][c]
        IN /\ rpc.complete
           /\ Cardinality(rpc.targets) >= 2
           /\ \E i, j \in 1..Len(rpc.results) :
                /\ rpc.results[i].rc = RPC_ERR_LOST_CONN
                /\ rpc.results[j].rc = RPC_OK

\* the targets of the last request, as a set
TargetSet(r) == {r.targets[i] : i \in 1..Len(r.targets)}

\* what the step handed to target t: messages queued for a peer, or handler
\* runs scheduled or made for the node itself
Pushed(n, t) ==
    IF IsLocalTarget(t)
    THEN (Len(sched'[n]) - Len(sched[n])) + (Len(handled') - Len(handled))
    ELSE Len(chan'[<<n, t.ident>>]) - Len(chan[<<n, t.ident>>])

\* C6: RPCClient.request with a non-empty target list allocates a fresh
\* counter, pushes exactly one request to each target and records
\* inflight[counter] = the target idents (and the future); with an empty
\* target list it returns None and adds nothing to inflight, by_peer or rpcs.
C6_RequestRecordsTargets ==
    [][(n_sends' = n_sends + 1 /\ result'.op = "send_rpc") =>
        LET r == result'
            n == r.node
        IN IF r.targets = <<>>
           THEN /\ r.rc = "None"
                /\ inflight' = inflight /\ by_peer' = by_peer /\ rpcs' = rpcs
           ELSE /\ r.rc = "RPC"
                /\ r.counter \notin DOMAIN inflight[n] \cup DOMAIN rpcs[n]
                /\ r.counter \in DOMAIN inflight'[n] \cap DOMAIN rpcs'[n]
                /\ inflight'[n][r.counter] = {t.ident : t \in TargetSet(r)}
                /\ \A t \in TargetSet(r) : Pushed(n, t) = 1]_vars

\* C7: a singular RPC with two or more matching candidates (the sender's own
\* handler and matching up peers) goes to exactly one target, one of the
\* candidates, one request is pushed or one handler run in all, and the
\* future has target_count 1.
C7_SingularOneTarget ==
    [][(n_sends' = n_sends + 1 /\ result'.op = "send_rpc") =>
        LET r == result'
            n == r.node
            candidates == {r.candidates[i] : i \in 1..Len(r.candidates)}
        IN (r.singular /\ Cardinality(candidates) >= 2) =>
            /\ Len(r.targets) = 1
            /\ r.targets[1] \in candidates
            /\ r.rc = "RPC"
            /\ r.counter \in DOMAIN rpcs'[n]
            /\ rpcs'[n][r.counter].target_count = 1
            /\ (Len(handled') - Len(handled)) + (Len(sched'[n]) - Len(sched[n]))
                + (Len(chan'[<<n, "B">>]) - Len(chan[<<n, "B">>]))
                + (Len(chan'[<<n, "C">>]) - Len(chan[<<n, "C">>])) = 1]_vars

\* the step of drop_peer at hub A for the connection to B
DropsPeer ==
    LET p == peers["A"]["B"]
        lost == [ident |-> "B", rc |-> RPC_ERR_LOST_CONN, result |-> None]
    IN n_drops' = n_drops + 1 =>
        /\ \A c \in DOMAIN inflight["A"] :
            IF "B" \in inflight["A"][c]
            THEN /\ rpcs'["A"][c].results = Append(rpcs["A"][c].results, lost)
                 /\ IF inflight["A"][c] = {"B"}
                    THEN rpcs'["A"][c].complete /\ c \notin DOMAIN inflight'["A"]
                    ELSE /\ ~rpcs'["A"][c].complete
                         /\ c \in DOMAIN inflight'["A"]
                         /\ inflight'["A"][c] = inflight["A"][c] \ {"B"}
            ELSE /\ c \in DOMAIN inflight'["A"]
                 /\ inflight'["A"][c] = inflight["A"][c]
                 /\ rpcs'["A"][c] = rpcs["A"][c]
        /\ \A c \in DOMAIN rpcs["A"] \ DOMAIN inflight["A"] :
                rpcs'["A"][c] = rpcs["A"][c]
        /\ result'.rc = "ok"

\* a LOST_CONN outcome is only ever attributed to a peer that was dropped
LostOnlyDropped ==
    \A c \in DOMAIN rpcs["A"] : \A i \in 1..Len(rpcs["A"][c].results) :
        LET res == rpcs["A"][c].results[i]
        IN IF res.rc = RPC_ERR_LOST_CONN
           THEN res.ident = "B" /\ conn_state[Conn("A", "B", 1)] = "down"
           ELSE res.rc = RPC_OK /\ res.result = (IF res.ident = None THEN "A" ELSE res.ident)

\* C8: when a hub drops peer p, every in-flight RPC that awaits p is handed
\* exactly one LOST_CONN outcome attributed to p, a future that awaited only p
\* completes, and an in-flight RPC that does not await p (a self-RPC to a
\* local handler included) keeps its awaited set and its future, and goes on
\* to its normal results.
C8_DropCancelsAwaited == [][DropsPeer]_vars /\ []LostOnlyDropped

\* B was just dropped: one RPC that awaited only B is complete, lost, while
\* another that awaits A's own handler and not B is still in flight
C8_Witness ==
    /\ result.op = "drop_peer"
    /\ \E c1, c2 \in DOMAIN rpcs["A"] :
        /\ rpcs["A"][c1].complete
        /\ rpcs["A"][c1].targets = {"B"}
        /\ rpcs["A"][c1].results[1].rc = RPC_ERR_LOST_CONN
        /\ c2 \in DOMAIN inflight["A"]
        /\ None \in inflight["A"][c2]
        /\ "B" \notin rpcs["A"][c2].targets

\* the client's connection to its hub has gone down and was dropped
ClientDown == conn_state[Conn("K", "A", Serial("K", "A"))] = "down"

\* C9: once the client's single upstream connection has gone down, every
\* proxied RPC future of the client is complete (with a lost-connection
\* outcome if it was pending), however many responses were outstanding and
\* whether or not its PROXY_RESPONSE_COUNT had been received.  The client
\* receives nothing after that, so a future left pending stays pending.
C9_DownCompletesPending ==
    ClientDown =>
        \A c \in DOMAIN rpcs["K"] : rpcs["K"][c].complete

\* the messages a step adds to the queue from hub A to client K
PushedToClient ==
    IF Len(chan'[<<"A", "K">>]) > Len(chan[<<"A", "K">>])
    THEN SubSeq(chan'[<<"A", "K">>], Len(chan[<<"A", "K">>]) + 1,
                Len(chan'[<<"A", "K">>]))
    ELSE <<>>

\* the hub pushes no PROXY_RESPONSE of a counter ahead of its count
CountPushedFirst ==
    LET new == PushedToClient
    IN \A i, j \in 1..Len(new) :
        (/\ new[i].type = "PROXY_RESPONSE"
         /\ new[j].type = "PROXY_RESPONSE_COUNT"
         /\ new[i].counter = new[j].counter) => j < i

\* the client processes a PROXY_RESPONSE only for a future that expect was
\* applied to, and expect is applied to a future at most once
ExpectAppliedFirst ==
    LET msg == Head(chan[<<"A", "K">>])
    IN /\ (/\ Receives("K", "A", "PROXY_RESPONSE")
           /\ chan'[<<"A", "K">>] = Tail(chan[<<"A", "K">>])
           /\ conn_state' = conn_state
           /\ msg.counter \in DOMAIN inflight["K"] \cap DOMAIN rpcs["K"])
          => rpcs["K"][msg.counter].expected = 1
       /\ \A c \in DOMAIN rpcs'["K"] : rpcs'["K"][c].expected <= 1

\* C10: for every PROXY_REQUEST a hub handles, PROXY_RESPONSE_COUNT for the
\* cli_counter is pushed to the client before any PROXY_RESPONSE of that
\* cli_counter, so the client applies expect exactly once, before it
\* processes any response of the request; also when the hub's own handler
\* runs inline.
C10_CountBeforeResponses == [][CountPushedFirst /\ ExpectAppliedFirst]_vars


\* everything hub A has sent to client K (in the runs where K leaves it queued)
ToClient == chan[<<"A", "K">>]

\* the messages of one type sent to the client for cli_counter c
SentFor(type, c) ==
    {i \in 1..Len(ToClient) : ToClient[i].type = type /\ ToClient[i].counter = c}

\* the counters of the requests the client has issued
ClientCounters == 1..(rpc_counter["K"] - 1)

\* the hub has taken the PROXY_REQUEST of cli_counter c off the wire
HandledByHub(c) ==
    \A i \in 1..Len(chan[<<"K", "A">>]) : chan[<<"K", "A">>][i].counter # c

\* the count declared for cli_counter c
DeclaredCount(c) ==
    ToClient[CHOOSE i \in SentFor("PROXY_RESPONSE_COUNT", c) : TRUE].target_count

\* every upstream target has answered, and its answer been processed, or was
\* dropped, and no handler of the hub is waiting to run
UpstreamSettled ==
    /\ sched["A"] = <<>>
    /\ \A m \in {"B", "C"} : IsUp(peers["A"][m]) =>
            chan[<<"A", m>>] = <<>> /\ chan[<<m, "A">>] = <<>> /\ sched[m] = <<>>

\* C11: for every PROXY_REQUEST a hub handles, exactly one
\* PROXY_RESPONSE_COUNT(cli_counter, n) is sent; the number of PROXY_RESPONSE
\* messages sent to the client for cli_counter never exceeds n, and it equals
\* n once every upstream target has answered or was dropped (singular or not,
\* with or without a local handler).
C11_ResponsesReachCount ==
    \A c \in ClientCounters :
        IF HandledByHub(c)
        THEN /\ Cardinality(SentFor("PROXY_RESPONSE_COUNT", c)) = 1
             /\ Cardinality(SentFor("PROXY_RESPONSE", c)) <= DeclaredCount(c)
             /\ UpstreamSettled =>
                    Cardinality(SentFor("PROXY_RESPONSE", c)) = DeclaredCount(c)
        ELSE /\ SentFor("PROXY_RESPONSE_COUNT", c) = {}
             /\ SentFor("PROXY_RESPONSE", c) = {}

\* the local RPC buckets of a service whose predicate matches routing_id
MatchingBuckets(n, service, routing_id) ==
    {b \in Buckets(n, <<MSG_TYPE_RPC_REQUEST, service>>) :
        BitAnd(routing_id, b.mask) = b.value}

\* the step in which hub A handles a PROXY_REQUEST that no up peer matches
\* and whose method it has no handler for
UnroutedProxyRequest ==
    LET msg == Head(chan[<<"K", "A">>])
    IN /\ Receives("A", "K", "PROXY_REQUEST")
       /\ chan'[<<"K", "A">>] = Tail(chan[<<"K", "A">>])
       /\ msg.arity = 7
       /\ MatchingUpPeers("A", MSG_TYPE_RPC_REQUEST, msg.service,
                           msg.routing_id) = {}
       /\ \A b \in MatchingBuckets("A", msg.service, msg.routing_id) :
                msg.method \notin DOMAIN b.handlers

\* the client's future of cli_counter c once it has processed what the step
\* sent it
FutureAfter(c) ==
    client_incoming_all(client_state("K"), peers["K"]["A"], PushedToClient).rpcs[c]

\* C12: when a hub handles a PROXY_REQUEST that no up peer matches and whose
\* method it has no handler for: if a local RPC bucket of the service matches
\* the routing_id it sends PROXY_RESPONSE_COUNT(cli_counter, 1) and then one
\* PROXY_RESPONSE(cli_counter, RPC_ERR_NOMETHOD, null), and the client's
\* future completes with that one result; otherwise it sends
\* PROXY_RESPONSE_COUNT(cli_counter, 0) and nothing else, and the client's
\* future completes with target_count 0 and no result (Unroutable).
C12_NoMethodOrUnroutable ==
    [][UnroutedProxyRequest =>
        LET msg == Head(chan[<<"K", "A">>])
            c == msg.counter
        IN IF MatchingBuckets("A", msg.service, msg.routing_id) # {}
           THEN /\ PushedToClient =
                    << [type |-> "PROXY_RESPONSE_COUNT", arity |-> 2,
                        counter |-> c, target_count |-> 1],
                       [type |-> "PROXY_RESPONSE", arity |-> 3, counter |-> c,
                        rc |-> RPC_ERR_NOMETHOD, result |-> None] >>
                /\ FutureAfter(c).complete
                /\ FutureAfter(c).target_count = 1
                /\ FutureAfter(c).results =
                    << [ident |-> "A", rc |-> RPC_ERR_NOMETHOD, result |-> None] >>
           ELSE /\ PushedToClient =
                    << [type |-> "PROXY_RESPONSE_COUNT", arity |-> 2,
                        counter |-> c, target_count |-> 0] >>
                /\ FutureAfter(c).complete
                /\ FutureAfter(c).target_count = 0
                /\ FutureAfter(c).results = <<>>]_vars

\* the hub has answered a request with a count of 1 and RPC_ERR_NOMETHOD
\* although it holds a handler under a matching bucket, of another method
C12_Witness ==
    \E c \in ClientCounters :
        /\ HandledByHub(c)
        /\ DeclaredCount(c) = 1
        /\ \E i \in SentFor("PROXY_RESPONSE", c) :
                ToClient[i].rc = RPC_ERR_NOMETHOD
        /\ local_subs["A"][<<MSG_TYPE_RPC_REQUEST, "s1">>] # <<>>

\* the LOST_CONN responses a step forwards to the client for cli_counter c
LostForwarded(c) ==
    {i \in 1..Len(PushedToClient) :
        PushedToClient[i] = [type |-> "PROXY_RESPONSE", arity |-> 3, counter |-> c,
                             rc |-> RPC_ERR_LOST_CONN, result |-> None]}

\* the step in which hub A drops upstream peer m
DropsUpstream(m) ==
    LET proxies == inflight_proxies["A"]
        Awaits(k) == k \in DOMAIN inflight["A"] /\ m \in inflight["A"][k]
    IN (IsUp(peers["A"][m]) /\ peers'["A"][m] = NoConn) =>
        /\ \A k \in DOMAIN proxies :
            IF Awaits(k)
            THEN /\ Cardinality(LostForwarded(proxies[k].client_counter)) = 1
                 /\ IF proxies[k].awaiting = 1
                    THEN k \notin DOMAIN inflight_proxies'["A"]
                    ELSE /\ k \in DOMAIN inflight_proxies'["A"]
                         /\ inflight_proxies'["A"][k] =
                                [proxies[k] EXCEPT !.awaiting = @ - 1]
            ELSE /\ LostForwarded(proxies[k].client_counter) = {}
                 /\ k \in DOMAIN inflight_proxies'["A"]
                 /\ inflight_proxies'["A"][k] = proxies[k]
        /\ DOMAIN inflight_proxies'["A"] \subseteq DOMAIN proxies
        /\ Len(PushedToClient) = Cardinality({k \in DOMAIN proxies : Awaits(k)})

\* C13: when a proxying hub drops upstream peer p, it forwards exactly one
\* PROXY_RESPONSE(cli_counter, RPC_ERR_LOST_CONN, null) to the client for
\* every proxy record that still awaits p and nothing for any other record
\* (p has answered, or was never a target); the awaiting count of a record
\* goes down by one per forwarded response and the record is deleted when
\* the count reaches zero.
C13_LostConnPerAwaitingRecord ==
    [][\A m \in {"B", "C"} : DropsUpstream(m)]_vars

\* an upstream peer was just dropped: the request that awaited it got its
\* LOST_CONN and still awaits another peer, and another request, which went
\* to one peer only, not the dropped one, got nothing
C13_Witness ==
    /\ result.op = "drop_peer"
    /\ \E k1, k2 \in DOMAIN inflight_proxies["A"] :
        LET c1 == inflight_proxies["A"][k1].client_counter
            c2 == inflight_proxies["A"][k2].client_counter
        IN /\ k1 # k2
           /\ DeclaredCount(c1) = 2
           /\ \E i \in SentFor("PROXY_RESPONSE", c1) :
                    ToClient[i].rc = RPC_ERR_LOST_CONN
           /\ inflight_proxies["A"][k1].awaiting = 1
           /\ DeclaredCount(c2) = 1
           /\ SentFor("PROXY_RESPONSE", c2) = {}
           /\ inflight_proxies["A"][k2].awaiting = 1

\* C14: on a client (while its connection is up), a proxied RPC future is
\* never complete before its PROXY_RESPONSE_COUNT has been processed, and it
\* is complete exactly when the count has been processed and as many
\* PROXY_RESPONSE messages as the count declares have been, whichever came
\* first; it is completed once; a count of 0 completes it at once with
\* target_count 0 and no result (Unroutable).
C14_CompleteAtDeclaredCount ==
    ~ClientDown =>
        \A c \in DOMAIN rpcs["K"] :
            LET rpc == rpcs["K"][c]
            IN /\ rpc.complete => rpc.expected = 1
               /\ rpc.complete <=>
                    (rpc.expected = 1 /\ Len(rpc.results) = rpc.target_count)
               /\ rpc.completions = (IF rpc.complete THEN 1 ELSE 0)

\* the client holds one future completed by a count of 0 and another
\* completed by a count of 2 and two responses
C14_Witness ==
    /\ ~ClientDown
    /\ \E c1, c2 \in DOMAIN rpcs["K"] :
        /\ rpcs["K"][c1].complete
        /\ rpcs["K"][c1].target_count = 0
        /\ rpcs["K"][c1].results = <<>>
        /\ rpcs["K"][c2].complete
        /\ rpcs["K"][c2].target_count = 2
        /\ Len(rpcs["K"][c2].results) = 2

\* C15: when up peer B processes the UNSUBSCRIBE message hub A broadcast for
\* a local subscription it removed, B's peer subscription table no longer
\* holds the entry (mask, value, A) under (msg_type, service) afterwards, so
\* that B stops routing to A on account of it.
C15_UnsubscribeRemovesEntry ==
    [][LET msg == Head(chan[<<"A", "B">>])
       IN (/\ Receives("B", "A", "UNSUBSCRIBE")
           /\ chan'[<<"A", "B">>] = Tail(chan[<<"A", "B">>]))
          => \A i \in 1..Len(peer_subs'["B"][<<msg.msg_type, msg.service>>]) :
                peer_subs'["B"][<<msg.msg_type, msg.service>>][i] #
                    [mask |-> msg.mask, value |-> msg.value,
                     peer |-> peers["B"]["A"]]]_vars

\* the subscriptions a peer subscription table holds for connection p
SubscriptionsIn(ps, p) ==
    UNION {{[msg_type |-> key[1], service |-> key[2],
             mask |-> ps[key][i].mask, value |-> ps[key][i].value] :
                i \in {j \in 1..Len(ps[key]) : ps[key][j].peer = p}} :
           key \in Keys}

SubscriptionsOf(n, p) == SubscriptionsIn(peer_subs[n], p)

\* C16: after drop_peer(p) the peer subscription table holds no entry
\* attributed to p, however many subscriptions p had under each
\* (msg_type, service), and the list of lost subscriptions it returns holds
\* every subscription p had.
C16_DropRemovesAllOfPeer ==
    [][\A n \in Nodes, m \in Nodes :
        (IsUp(peers[n][m]) /\ peers'[n][m] = NoConn) =>
            /\ \A key \in Keys : \A i \in 1..Len(peer_subs'[n][key]) :
                    peer_subs'[n][key][i].peer # peers[n][m]
            /\ SubscriptionsOf(n, peers[n][m]) \subseteq
                    {result'.subs[i] : i \in 1..Len(result'.subs)}]_vars

\* store_peer runs at n for a connection to m (its handshake ends) while
\* a connection is stored for m
Resolves(n, m, new) ==
    /\ peers[n][m] # NoConn
    /\ conn_state[new] = "handshaking"
    /\ conn_state'[new] # "handshaking"

\* C17: after any sequence of store_peer and drop_peer calls the peers
\* index of a node holds, for each ident, one connection of that node to
\* that ident, which has not gone down; when two connections to one ident
\* are resolved, the one stored afterwards is the one dialled by the lower
\* ident and the other is down, and a connection that is down stays down.
C17_OneLiveConnectionPerIdent ==
    /\ [](\A n \in Nodes, m \in Nodes :
            peers[n][m] # NoConn =>
                /\ peers[n][m] \in Conns
                /\ peers[n][m].at = n /\ peers[n][m].ident = m
                /\ conn_state[peers[n][m]] = "up")
    /\ [][/\ \A n \in Nodes, m \in Nodes, k \in ConnSerials :
                Resolves(n, m, Conn(n, m, k)) =>
                    /\ peers'[n][m] = Conn(n, m, 1)
                    /\ conn_state'[Conn(n, m, 2)] = "down"
          /\ \A c \in Conns : conn_state[c] = "down" => conn_state'[c] = "down"]_vars

\* both sockets of A and B completed their handshake at A and nothing was
\* dropped by the application: the socket A dialled is the one stored
C17_Witness ==
    /\ n_drops = 0
    /\ peers["A"]["B"] = Conn("A", "B", 1)
    /\ conn_state[Conn("A", "B", 2)] = "down"
    /\ established[Conn("A", "B", 2)]

\* the subscriptions a handshake record carries, as a set
Carried(subscriptions) ==
    {subscriptions[i] : i \in 1..Len(subscriptions)}

\* C18: when store_peer runs for a connection whose ident is already
\* stored, the established events of both connections are set afterwards,
\* one of the two is stored and up and the other is down (nothing in the
\* system reconnects it), and the peer subscription table holds for that
\* ident the winner's subscriptions and no entry of the loser.
C18_DuplicateResolution ==
    [][\A n \in Nodes, m \in Nodes, k \in ConnSerials :
        LET new == Conn(n, m, k)
            old == peers[n][m]
            winner == peers'[n][m]
            loser == IF winner = new THEN old ELSE new
        IN Resolves(n, m, new) =>
            /\ established'[new] /\ established'[old]
            /\ winner \in {new, old}
            /\ conn_state'[winner] = "up"
            /\ conn_state'[loser] = "down"
            /\ \A key \in Keys : \A i \in 1..Len(peer_subs'[n][key]) :
                    peer_subs'[n][key][i].peer.ident = m =>
                        peer_subs'[n][key][i].peer = winner
            /\ SubscriptionsIn(peer_subs'[n], winner) = Carried(local_subscriptions(m))]_vars

\* the originator of rpc c at hub A has discarded the future
Discarded(c) == c < rpc_counter["A"] /\ c \notin DOMAIN rpcs["A"]

\* hub A processes an RPC_RESPONSE for counter c from m
ProcessesResponse(m, c) ==
    /\ Receives("A", m, "RPC_RESPONSE")
    /\ Head(chan[<<m, "A">>]).counter = c
    /\ chan'[<<m, "A">>] = Tail(chan[<<m, "A">>])

\* C19: once the originator has discarded a future, the in-flight entry of
\* its counter does not outlive the last awaited response or LOST_CONN (an
\* entry that is still there awaits somebody), and a response for the
\* counter that arrives when the entry is gone or no longer awaits its
\* sender changes nothing but the queue it is taken from.
C19_DiscardedFutureCollected ==
    /\ [](\A c \in 1..MaxRpcs :
            (Discarded(c) /\ c \in DOMAIN inflight["A"]) => inflight["A"][c] # {})
    /\ [][\A m \in {"B", "C"}, c \in 1..MaxRpcs :
            (/\ ProcessesResponse(m, c)
             /\ Discarded(c)
             /\ c \in DOMAIN inflight["A"] => m \notin inflight["A"][c]) =>
                /\ chan' = [chan EXCEPT ![<<m, "A">>] = Tail(@)]
                /\ UNCHANGED <<subVars, connVars, sched, handled, pubs, rpcVars>>]_vars

\* the futures the w-th wait() of hub A was called with
WaitedBy(w) == {waits["A"][w].counters[i] : i \in 1..Len(waits["A"][w].counters)}

\* the w-th wait() of hub A times out in this step
TimesOut(w) ==
    /\ w \in 1..Len(waits["A"])
    /\ waits["A"][w].pos = "blocked"
    /\ waits'["A"][w].pos = "timed_out"

\* the future of counter c at hub A becomes complete in this step
Completes(c) ==
    /\ c \in DOMAIN rpcs["A"] /\ ~rpcs["A"][c].complete
    /\ c \in DOMAIN rpcs'["A"] /\ rpcs'["A"][c].complete

\* C20: when a wait times out, WaitTimeout is raised, every future it
\* waited on is still pending and unchanged, and the in-flight records are
\* untouched; afterwards the last awaited response of a future still
\* completes it, and a completion finishes every handle that waits on the
\* future and is not finished yet, with a future completed then as its
\* result.
C20_TimeoutLeavesFuturePending ==
    [][/\ \A w \in 1..MaxWaits :
            TimesOut(w) =>
                /\ result'.op = "wait" /\ result'.rc = "WaitTimeout"
                /\ \A c \in WaitedBy(w) :
                    /\ c \in DOMAIN rpcs'["A"]
                    /\ ~rpcs'["A"][c].complete
                    /\ rpcs'["A"][c] = rpcs["A"][c]
                    /\ c \in DOMAIN inflight'["A"]
                /\ inflight' = inflight /\ by_peer' = by_peer
       /\ \A m \in {"B", "C"}, c \in 1..MaxRpcs :
            (/\ ProcessesResponse(m, c)
             /\ c \in DOMAIN rpcs["A"] /\ c \in DOMAIN inflight["A"]
             /\ inflight["A"][c] = {m}) => Completes(c)
       /\ \A w \in 1..Len(waits["A"]) :
            (/\ ~waits["A"][w].finished
             /\ \E c \in WaitedBy(w) : Completes(c)) =>
                /\ Len(waits'["A"]) >= w
                /\ waits'["A"][w].finished /\ waits'["A"][w].done
                /\ waits'["A"][w].completed_rpc \in
                        {c \in WaitedBy(w) : Completes(c)}]_vars

\* one wait on a future timed out, the future was completed afterwards,
\* and another wait on it returned it
C20_Witness ==
    \E w1, w2 \in 1..Len(waits["A"]) : \E c \in WaitedBy(w1) \cap WaitedBy(w2) :
        /\ waits["A"][w1].pos = "timed_out"
        /\ waits["A"][w1].completed_rpc = c
        /\ waits["A"][w2].pos = "returned"
        /\ waits["A"][w2].completed_rpc = c
        /\ c \in DOMAIN rpcs["A"] /\ rpcs["A"][c].complete

\* a call of wait() at hub A returns a future in this step
WaitReturns ==
    /\ result'.op = "wait" /\ result'.rc = "ok"
    /\ \/ result' # result
       \/ \E w \in 1..Len(waits["A"]) :
            waits["A"][w].pos = "blocked" /\ waits'["A"][w].pos = "returned"

ServesRequest ==
    /\ Receives("B", "A", "RPC_REQUEST")
    /\ chan'[<<"A", "B">>] = Tail(chan[<<"A", "B">>])

\* hub B runs the scheduled handler that is next
RunsScheduled ==
    /\ sched["B"] # <<>>
    /\ sched'["B"] = Tail(sched["B"])

\* in this step hub B pushes msg to hub A, and nothing else
PushesToA(msg) == chan'[<<"B", "A">>] = Append(chan[<<"B", "A">>], msg)

\* in this step hub B pushes an RPC_RESPONSE of the counter to hub A that
\* is not an answer of the dispatcher itself
PushesOutcome(counter) ==
    \E rc \in {RPC_OK, RPC_ERR_KNOWN, RPC_ERR_UNKNOWN, RPC_ERR_UNSER_RESP},
       res \in {"A", "B", "(code, args)", "traceback", "repr(object)"} :
        PushesToA([type |-> "RPC_RESPONSE", arity |-> 3, counter |-> counter,
                   rc |-> rc, result |-> res])

\* C22: hub B answers every RPC_REQUEST of hub A with exactly one
\* RPC_RESPONSE of the same counter: NOHANDLER at once when no bucket of
\* the service matches the routing id, NOMETHOD at once when some bucket
\* matches and none that matches has the method, and else the outcome of
\* the handler, pushed in the same step when the handler runs inline or by
\* the scheduled run of that handler; no other step pushes an RPC_RESPONSE.
C22_OneResponsePerRequest ==
    [][LET msg == Head(chan[<<"A", "B">>])
           matching == MatchingBuckets("B", msg.service, msg.routing_id)
           answer(rc) == [type |-> "RPC_RESPONSE", arity |-> 3,
                          counter |-> msg.counter, rc |-> rc, result |-> None]
       IN /\ ServesRequest =>
                IF matching = {}
                THEN PushesToA(answer(RPC_ERR_NOHANDLER)) /\ sched' = sched
                ELSE IF \A b \in matching : msg.method \notin DOMAIN b.handlers
                THEN PushesToA(answer(RPC_ERR_NOMETHOD)) /\ sched' = sched
                ELSE \/ /\ PushesOutcome(msg.counter)
                        /\ sched' = sched
                        /\ Len(handled') = Len(handled) + 1
                        /\ handled'[Len(handled')].method = msg.method
                        /\ handled'[Len(handled')].arg = msg.counter
                     \/ /\ chan'[<<"B", "A">>] = chan[<<"B", "A">>]
                        /\ handled' = handled
                        /\ Len(sched'["B"]) = Len(sched["B"]) + 1
                        /\ sched'["B"][Len(sched'["B"])].counter = msg.counter
                        /\ sched'["B"][Len(sched'["B"])].h.method = msg.method
                        /\ ~IsLocalTarget(sched'["B"][Len(sched'["B"])].peer)
          /\ RunsScheduled => PushesOutcome(Head(sched["B"]).counter)
          /\ (/\ Len(chan'[<<"B", "A">>]) > Len(chan[<<"B", "A">>])
              /\ chan'[<<"B", "A">>][Len(chan'[<<"B", "A">>])].type = "RPC_RESPONSE")
                => ServesRequest \/ RunsScheduled]_vars

\* hub A's futures hold an answer NOMETHOD and an answer NOHANDLER of hub B
C22_Witness ==
    \E c1, c2 \in DOMAIN rpcs["A"] :
        /\ \E i \in 1..Len(rpcs["A"][c1].results) :
                /\ rpcs["A"][c1].results[i].ident = "B"
                /\ rpcs["A"][c1].results[i].rc = RPC_ERR_NOMETHOD
        /\ \E i \in 1..Len(rpcs["A"][c2].results) :
                /\ rpcs["A"][c2].results[i].ident = "B"
                /\ rpcs["A"][c2].results[i].rc = RPC_ERR_NOHANDLER

\* an rpc handler is invoked in this step
Invokes == Len(handled') = Len(handled) + 1

\* the response owed for a run of the handler of a method at node n, for a
\* requester that is a peer (the response is serialized) or the node itself
OwedResponse(n, method, remote) ==
    IF method = "m2" THEN [rc |-> RPC_ERR_KNOWN, result |-> "(code, args)"]
    ELSE IF method = "m3" THEN [rc |-> RPC_ERR_UNKNOWN, result |-> "traceback"]
    ELSE IF method = "m4" /\ remote
    THEN [rc |-> RPC_ERR_UNSER_RESP, result |-> "repr(object)"]
    ELSE IF method = "m4" THEN [rc |-> RPC_OK, result |-> "object"]
    ELSE [rc |-> RPC_OK, result |-> n]

\* C23: every run of an rpc handler produces exactly one response and no
\* error leaves the run: rc 0 with the value when the handler returns,
\* RPC_ERR_KNOWN with (code, args) for a HandledError, RPC_ERR_UNKNOWN with
\* the traceback for another exception, RPC_ERR_UNSER_RESP with the repr of
\* the result when serializing it fails.  The response of a run for a peer
\* is pushed to that peer; the response of a run for the hub's own rpc
\* reaches the future of that rpc.
C23_HandlerRunAnswered ==
    [][Invokes =>
        LET inv == handled'[Len(handled')]
            remote == inv.caller # None
            owed == OwedResponse(inv.node, inv.method, remote)
        IN IF remote
           THEN /\ inv.node = "B" /\ inv.caller = "A"
                /\ PushesToA([type |-> "RPC_RESPONSE", arity |-> 3,
                              counter |-> inv.arg, rc |-> owed.rc,
                              result |-> owed.result])
                /\ result' = result
           ELSE /\ result' = result \/ result'.rc # "KeyError"
                /\ inv.arg \in DOMAIN rpcs'[inv.node]
                /\ \E i \in 1..Len(rpcs'[inv.node][inv.arg].results) :
                    rpcs'[inv.node][inv.arg].results[i] =
                        [ident |-> None, rc |-> owed.rc, result |-> owed.result]]_vars

\* the publisher of the publish a handler run handles
Publisher(inv) == pubs[inv.arg].node

\* C24: the publishes of one publisher that reach the same handler of one
\* receiver are handled in the order in which they were sent (the publishes
\* are numbered in the order of the calls), for a hub that publishes and for a
\* client whose publishes its hub relays.
C24_PublishOrder ==
    \A i, j \in 1..Len(handled) :
        (/\ i < j
         /\ [handled[i] EXCEPT !.arg = 0] = [handled[j] EXCEPT !.arg = 0]
         /\ Publisher(handled[i]) = Publisher(handled[j]))
        => handled[i].arg < handled[j].arg

\* handler runs i < j at node n for two publishes of publisher p
HandledTwice(n, p) ==
    \E i, j \in 1..Len(handled) :
        /\ i < j
        /\ handled[i].node = n /\ handled[j].node = n
        /\ Publisher(handled[i]) = p /\ Publisher(handled[j]) = p

\* two publishes of client K were handled by the inline handler of its hub A
\* and by the scheduled handler of hub B
C24_Witness == HandledTwice("A", "K") /\ HandledTwice("B", "K")

\* the messages a step appends to the queue from n to m
Appended(n, m) ==
    SubSeq(chan'[<<n, m>>], Len(chan[<<n, m>>]) + 1, Len(chan'[<<n, m>>]))

\* the stream of the chunked publish p on the wire: open, the chunks, end
StreamOf(p) ==
    <<[type |-> "PUBLISH_IS_CHUNKED", arity |-> 5, service |-> p.service,
       routing_id |-> p.routing_id, method |-> p.method, counter |-> p.counter]>>
    \o [k \in 1..Len(p.chunks) |->
            [type |-> "PUBLISH_CHUNK", arity |-> 2, counter |-> p.counter,
             chunk |-> p.chunks[k]]]
    \o <<[type |-> "PUBLISH_END", arity |-> 1, counter |-> p.counter]>>

\* a chunked publish is sent in this step
SendsChunked == Len(pubs') = Len(pubs) + 1 /\ result'.op = "send_chunked_publish"

\* node n takes the end message of a stream of m off the queue, and has a
\* handler for the publish the stream belongs to
StreamEnds(n, m, id) ==
    /\ chan[<<m, n>>] # <<>>
    /\ Head(chan[<<m, n>>]).type = "PUBLISH_END"
    /\ chan'[<<m, n>>] = Tail(chan[<<m, n>>])
    /\ pubs[id].node = m
    /\ pubs[id].counter = Head(chan[<<m, n>>]).counter
    /\ find_local_handler(n, MSG_TYPE_PUBLISH, pubs[id].service,
                          pubs[id].routing_id, pubs[id].method) # 0

\* C25: a chunked publish puts on the queue to every up peer with a matching
\* subscription the open message, the chunks in the order of the sequence and
\* the end message, all with one counter; and when a peer with a matching
\* handler has taken the end message, that handler has been invoked (or is
\* scheduled) exactly once for the stream.
C25_ChunkedPublishDelivered ==
    [][/\ SendsChunked =>
            LET p == pubs'[Len(pubs')]
            IN \A m \in Hubs \ {p.node} :
                Appended(p.node, m) =
                    IF /\ IsUp(peers[p.node][m])
                       /\ \E k \in 1..Len(peer_subs[p.node][<<MSG_TYPE_PUBLISH, p.service>>]) :
                            LET e == peer_subs[p.node][<<MSG_TYPE_PUBLISH, p.service>>][k]
                            IN e.peer = peers[p.node][m]
                               /\ Matches(p.routing_id, e.mask, e.value)
                    THEN StreamOf(p) ELSE <<>>
       /\ \A n \in Hubs, m \in Hubs, id \in 1..Len(pubs) :
            StreamEnds(n, m, id) =>
                Cardinality({k \in 1..Len(handled') :
                                handled'[k].node = n /\ handled'[k].arg = id})
                + Cardinality({k \in 1..Len(sched'[n]) : sched'[n][k].arg = id})
                = 1]_vars

\* the up peers of n with a subscription that matches (msg_type, service,
\* routing_id)
MatchingPeers(n, msg_type, service, routing_id) ==
    {m \in Nodes :
        /\ IsUp(peers[n][m])
        /\ \E k \in 1..Len(peer_subs[n][<<msg_type, service>>]) :
            LET e == peer_subs[n][<<msg_type, service>>][k]
            IN e.peer = peers[n][m] /\ Matches(routing_id, e.mask, e.value)}

\* n has a handler of the method under a predicate that matches routing_id
HasHandler(n, msg_type, service, routing_id, method) ==
    \E k \in 1..Len(local_subs[n][<<msg_type, service>>]) :
        LET b == local_subs[n][<<msg_type, service>>][k]
        IN Matches(routing_id, b.mask, b.value) /\ method \in DOMAIN b.handlers

\* hub A takes a well-formed receiver-count query of client K off the queue
AnswersQuery ==
    /\ chan[<<"K", "A">>] # <<>>
    /\ Head(chan[<<"K", "A">>]).type = "PROXY_QUERY_COUNT"
    /\ Head(chan[<<"K", "A">>]).arity = 5
    /\ chan'[<<"K", "A">>] = Tail(chan[<<"K", "A">>])

\* C26: a receiver-count query is answered with exactly one
\* PROXY_RESPONSE(counter, 0, n), n being the number of up peers with a
\* matching subscription plus one if the hub itself has a handler for the
\* method; nothing is pushed to any other peer.
C26_ReceiverCount ==
    [][AnswersQuery =>
        LET q == Head(chan[<<"K", "A">>])
            n == Cardinality(MatchingPeers("A", q.msg_type, q.service, q.routing_id))
                 + (IF HasHandler("A", q.msg_type, q.service, q.routing_id, q.method)
                    THEN 1 ELSE 0)
        IN /\ Appended("A", "K") = <<[type |-> "PROXY_RESPONSE", arity |-> 3,
                                      counter |-> q.counter, rc |-> RPC_OK,
                                      result |-> n]>>
           /\ \A m \in Nodes \ {"K"} : chan'[<<"A", m>>] = chan[<<"A", m>>]]_vars

\* hub A takes a well-formed RPC_RESPONSE of peer m off the queue, and m is
\* not awaited for its counter
TakesMistaken(m) ==
    /\ IsUp(peers["A"][m])
    /\ chan[<<m, "A">>] # <<>>
    /\ chan'[<<m, "A">>] = Tail(chan[<<m, "A">>])
    /\ LET msg == Head(chan[<<m, "A">>])
       IN /\ msg.type = "RPC_RESPONSE" /\ msg.arity = 3
          /\ \/ msg.counter \notin DOMAIN inflight["A"]
             \/ m \notin inflight["A"][msg.counter]

\* C27: an RPC_RESPONSE of a peer that is not awaited for its counter is
\* dropped: the in-flight records, the by-peer index, the proxy records and
\* the futures stay as they are, nothing is pushed to any peer or client, and
\* no error is raised; for the counters of the hub's own rpcs and for those
\* of its clients' rpcs.
C27_MistakenResponseDropped ==
    [][\A m \in {"B", "C"} : TakesMistaken(m) =>
        /\ UNCHANGED <<inflight, by_peer, inflight_proxies, rpcs, result>>
        /\ \A l \in Links : l # <<m, "A">> => chan'[l] = chan[l]]_vars

\* node n takes off the queue a message of peer m that has an unknown type
\* or a payload of the wrong arity
TakesMalformed(m, n) ==
    /\ IsUp(peers[n][m])
    /\ chan[<<m, n>>] # <<>>
    /\ chan'[<<m, n>>] = Tail(chan[<<m, n>>])
    /\ \/ Head(chan[<<m, n>>]).arity = 0
       \/ Head(chan[<<m, n>>]).type \notin handlers

\* C28: a message of an unknown type or with a payload of the wrong arity
\* is dropped: the subscription tables, the peers index, the in-flight
\* records, the proxy records, the futures and the scheduled handlers stay as
\* they are, no handler runs, no error is raised and no message is pushed to
\* any peer.
C28_MalformedDropped ==
    [][\A m, n \in Nodes : TakesMalformed(m, n) =>
        /\ UNCHANGED <<local_subs, peer_subs, peers, conn_state, inflight, by_peer,
                       inflight_proxies, rpcs, sched, handled, result>>
        /\ \A l \in Links : l # <<m, n>> => chan'[l] = chan[l]]_vars

\* a malformed message of its client is next for hub A while A holds an
\* in-flight record and a proxy record
C28_Witness ==
    /\ IsUp(peers["A"]["K"])
    /\ chan[<<"K", "A">>] # <<>>
    /\ Head(chan[<<"K", "A">>]).arity = 0
    /\ DOMAIN inflight["A"] # {}
    /\ DOMAIN inflight_proxies["A"] # {}

\* the (peer, counter) pairs of the by-peer index of hub n
ByPeerPairs(n) ==
    UNION {{<<p, c>> : c \in by_peer[n][p]} : p \in DOMAIN by_peer[n]}

\* the (counter, ident) pairs awaited in the in-flight records of hub n
AwaitedPairs(n) ==
    UNION {{<<c, i>> : i \in inflight[n][c]} : c \in DOMAIN inflight[n]}

\* C29: at every hub the by-peer index holds as many (peer, counter) pairs
\* as the in-flight records hold awaited idents, in every reachable state,
\* so after every request, response and connection_down.
C29_IndexMatchesInflight ==
    \A n \in Hubs : Cardinality(ByPeerPairs(n)) = Cardinality(AwaitedPairs(n))

\* hub A has taken one response of an rpc and still awaits another peer for it
C29_Witness ==
    \E c \in DOMAIN rpcs["A"] :
        /\ c \in DOMAIN inflight["A"]
        /\ rpcs["A"][c].results # <<>>
        /\ inflight["A"][c] # {}
        /\ Cardinality(ByPeerPairs("A")) >= 1

\* a step appends a bucket to the list of n under key
AddsBucket(n, key) ==
    /\ Len(local_subs'[n][key]) = Len(local_subs[n][key]) + 1
    /\ SubSeq(local_subs'[n][key], 1, Len(local_subs[n][key])) = local_subs[n][key]

\* a step adds a method to a bucket of n under key
AddsMethod(n, key) ==
    /\ Len(local_subs'[n][key]) = Len(local_subs[n][key])
    /\ \E i \in 1..Len(local_subs[n][key]) :
        /\ DOMAIN local_subs[n][key][i].handlers # DOMAIN local_subs'[n][key][i].handlers
        /\ DOMAIN local_subs[n][key][i].handlers
                \subseteq DOMAIN local_subs'[n][key][i].handlers

\* C30: a successful add_local_subscription pushes one ANNOUNCE(msg_type,
\* service, mask, value) to every up peer and nothing to any other peer if
\* no bucket with that (mask, value) existed under (msg_type, service), and
\* it pushes nothing at all if it adds a method to an existing bucket; a
\* successful call does the one or the other.
C30_AnnounceIffNewBucket ==
    [][\A n \in Hubs :
        /\ (result' = [op |-> "add_local_subscription", rc |-> "ok"]
            /\ n_subops' = n_subops + 1 /\ local_subs'[n] # local_subs[n])
           => \E key \in Keys : AddsBucket(n, key) \/ AddsMethod(n, key)
        /\ \A key \in Keys :
            /\ AddsBucket(n, key) =>
                LET b == local_subs'[n][key][Len(local_subs'[n][key])]
                IN /\ \A i \in 1..Len(local_subs[n][key]) :
                        <<local_subs[n][key][i].mask, local_subs[n][key][i].value>>
                            # <<b.mask, b.value>>
                   /\ \A m \in Nodes :
                        Appended(n, m) =
                            IF IsUp(peers[n][m])
                            THEN <<[type |-> "ANNOUNCE", arity |-> 4,
                                    msg_type |-> key[1], service |-> key[2],
                                    mask |-> b.mask, value |-> b.value]>>
                            ELSE <<>>
                   /\ \A l \in Links : l[1] # n => chan'[l] = chan[l]
            /\ AddsMethod(n, key) => chan' = chan]_vars

\* hub A holds a bucket with two methods, and its one ANNOUNCE is on the
\* queue to the up peer B
C30_Witness ==
    /\ IsUp(peers["A"]["B"])
    /\ \E key \in Keys : \E i \in 1..Len(local_subs["A"][key]) :
        LET b == local_subs["A"][key][i]
        IN /\ Cardinality(DOMAIN b.handlers) = 2
           /\ Cardinality({k \in 1..Len(chan[<<"A", "B">>]) :
                            chan[<<"A", "B">>][k] =
                                [type |-> "ANNOUNCE", arity |-> 4,
                                 msg_type |-> key[1], service |-> key[2],
                                 mask |-> b.mask, value |-> b.value]}) = 1

\* C31: remove_local_subscription(msg_type, service, mask, value) returns
\* True exactly if a bucket with that (mask, value) is held under (msg_type,
\* service); it then removes the bucket with all its methods, leaves every
\* other bucket as it was and pushes one UNSUBSCRIBE(msg_type, service, mask,
\* value) to every up peer and nothing to any other; when it returns False
\* the local table is unchanged and nothing is pushed.
C31_RemoveLocal ==
    [][\A msg_type \in {MSG_TYPE_PUBLISH, MSG_TYPE_RPC_REQUEST},
          mask \in Masks, value \in Masks :
        remove_local_subscription("A", msg_type, "s1", mask, value) =>
            LET key == <<msg_type, "s1">>
                group == local_subs["A"][key]
                Same(b) == b.mask = mask /\ b.value = value
                Other(b) == ~Same(b)
                held == \E i \in 1..Len(group) : Same(group[i])
            IN /\ (result'.rc = "True") = held
               /\ (result'.rc = "False") = ~held
               /\ held =>
                    /\ local_subs'["A"][key] = SelectSeq(group, Other)
                    /\ Len(local_subs'["A"][key]) = Len(group) - 1
                    /\ \A k \in Keys \ {key} :
                            local_subs'["A"][k] = local_subs["A"][k]
                    /\ \A m \in Nodes :
                        Appended("A", m) =
                            IF IsUp(peers["A"][m])
                            THEN <<[type |-> "UNSUBSCRIBE", arity |-> 4,
                                    msg_type |-> msg_type, service |-> "s1",
                                    mask |-> mask, value |-> value]>>
                            ELSE <<>>
                    /\ \A l \in Links : l[1] # "A" => chan'[l] = chan[l]
               /\ ~held => local_subs' = local_subs /\ chan' = chan]_vars

\* hub A, with B up, has removed the one bucket it held: its table is empty
\* again and the UNSUBSCRIBE is on the queue to B
C31_Witness ==
    /\ IsUp(peers["A"]["B"])
    /\ result = [op |-> "remove_local_subscription", rc |-> "True"]
    /\ \A key \in Keys : local_subs["A"][key] = <<>>
    /\ \E k \in 1..Len(chan[<<"A", "B">>]) :
        /\ chan[<<"A", "B">>][k].type = "UNSUBSCRIBE"
        /\ \A j \in 1..Len(chan[<<"A", "B">>]) : j # k =>
            chan[<<"A", "B">>][j].type = "HANDSHAKE"

\* the handshake of connection new ends at hub A while a reconnect loop to
\* B is in the reconnecting table and no connection to B is stored
Preempts(new) ==
    /\ reconnecting["A"]["B"] # NoConn
    /\ peers["A"]["B"] = NoConn
    /\ conn_state[new] = "handshaking"
    /\ conn_state'[new] # "handshaking"

\* C32: when store_peer runs for a connection whose ident has an entry in
\* the reconnecting table and no stored peer, the entry is removed, the
\* reconnecting connection is down with its established event set and does
\* not enter the table again, and the incoming connection is stored, up,
\* with the subscriptions of its handshake record in the peer table.
C32_ReconnectPreempted ==
    [][/\ \A k \in ConnSerials :
            LET new == Conn("A", "B", k)
                old == reconnecting["A"]["B"]
            IN Preempts(new) =>
                /\ reconnecting'["A"]["B"] = NoConn
                /\ conn_state'[old] = "down"
                /\ established'[old]
                /\ established'[new]
                /\ peers'["A"]["B"] = new
                /\ conn_state'[new] = "up"
                /\ \E i \in 1..Len(chan[<<"B", "A">>]) :
                    /\ chan[<<"B", "A">>][i].type = "HANDSHAKE"
                    /\ chan[<<"B", "A">>][i].k = k
                    /\ SubscriptionsIn(peer_subs'["A"], new) =
                            Carried(chan[<<"B", "A">>][i].subscriptions)
       /\ \A c \in Conns :
            (conn_state[c] = "down" /\ reconnecting["A"]["B"] # c)
                => reconnecting'["A"]["B"] # c]_vars

\* the connection A dialled went down and was waiting to reconnect; the
\* connection B dialled is now stored at A with B's subscription, and the
\* reconnecting table is empty
C32_Witness ==
    /\ n_drops = 1
    /\ reconnecting["A"]["B"] = NoConn
    /\ conn_state[Conn("A", "B", 1)] = "down"
    /\ established[Conn("A", "B", 1)]
    /\ peers["A"]["B"] = Conn("A", "B", 2)
    /\ SubscriptionsOf("A", Conn("A", "B", 2)) # {}

\* some routing id satisfies both predicates
Shared(mask1, value1, mask2, value2) ==
    \E routing_id \in WideMasks :
        /\ BitAnd(routing_id, mask1) = value1
        /\ BitAnd(routing_id, mask2) = value2

\* C33: for predicates (mask1, value1) and (mask2, value2) with no 1 bit of
\* the value masked out, the overlap test of add_local_subscription is true
\* exactly if some routing id satisfies both predicates; so a registration
\* of a method every bucket holds is rejected as overlapping exactly if some
\* routing id satisfies its predicate and that of a bucket.
C33_OverlapTest ==
    [][\A mask \in WideMasks, value \in WideMasks :
        (/\ add_local_subscription("A", MSG_TYPE_PUBLISH, "s1", mask, value,
                                   "m1", FALSE)
         /\ AndNot(value, mask) = 0) =>
            LET group == local_subs["A"][<<MSG_TYPE_PUBLISH, "s1">>]
            IN /\ \A i \in 1..Len(group) :
                    /\ AndNot(group[i].value, group[i].mask) = 0
                    /\ Overlaps(group[i].mask, group[i].value, mask, value)
                        = Shared(group[i].mask, group[i].value, mask, value)
               /\ (result'.rc = "OverlappingSubscription")
                    = \E i \in 1..Len(group) :
                        Shared(group[i].mask, group[i].value, mask, value)]_vars

\* hub A holds two buckets that share no routing id though their masks
\* differ, and a third registration was rejected as overlapping
C33_Witness ==
    LET group == local_subs["A"][<<MSG_TYPE_PUBLISH, "s1">>]
    IN /\ Len(group) = 2
       /\ group[1].mask # group[2].mask
       /\ ~Shared(group[1].mask, group[1].value, group[2].mask, group[2].value)
       /\ result = [op |-> "add_local_subscription", rc |-> "OverlappingSubscription"]

\* a step is a send_publish call
SendsPublish == Len(pubs') = Len(pubs) + 1 /\ result'.op = "send_publish"

\* the number of targets of the publish pb: the up peers with a matching
\* subscription, and the node itself if it has a handler of the method
TargetCount(pb) ==
    Cardinality(MatchingPeers(pb.node, MSG_TYPE_PUBLISH, pb.service, pb.routing_id))
    + (IF HasHandler(pb.node, MSG_TYPE_PUBLISH, pb.service, pb.routing_id, pb.method)
       THEN 1 ELSE 0)

\* the singular publish pb with one target reaches that target and no other
ReachesTheOne(pb) ==
    IF HasHandler(pb.node, MSG_TYPE_PUBLISH, pb.service, pb.routing_id, pb.method)
    THEN /\ chan' = chan
         /\ (Len(handled') - Len(handled))
                + (Len(sched'[pb.node]) - Len(sched[pb.node])) = 1
    ELSE /\ handled' = handled /\ sched' = sched
         /\ \A m \in Nodes :
                Len(Appended(pb.node, m)) =
                    IF m \in MatchingPeers(pb.node, MSG_TYPE_PUBLISH,
                                           pb.service, pb.routing_id)
                    THEN 1 ELSE 0
         /\ \A m \in Nodes : \A i \in 1..Len(Appended(pb.node, m)) :
                Appended(pb.node, m)[i].type = "PUBLISH"

\* C34: a singular publish with exactly one target sends the PUBLISH to that
\* target, and one with no target sends nothing, runs nothing and returns
\* False (no receiver) instead of failing.
C34_SingularPublish ==
    [][SendsPublish =>
        LET pb == pubs'[Len(pubs')]
        IN pb.singular =>
            /\ TargetCount(pb) = 1 => ReachesTheOne(pb) /\ result'.rc = "True"
            /\ TargetCount(pb) = 0 =>
                /\ result'.rc = "False"
                /\ chan' = chan /\ handled' = handled /\ sched' = sched]_vars

\* C35: once both sides of the connection between hubs n and m are up and
\* every message between them is processed, m's peer subscription table
\* holds, for the connection to n, the predicate of every local subscription
\* of n, whenever n registered it.
C35_SubscriptionsReachPeers ==
    \A n \in SubHubs, m \in SubHubs :
        (/\ IsUp(peers[n][m]) /\ IsUp(peers[m][n])
         /\ chan[<<n, m>>] = <<>> /\ chan[<<m, n>>] = <<>>) =>
            \A key \in Keys : \A i \in 1..Len(local_subs[n][key]) :
                \E j \in 1..Len(peer_subs[m][key]) :
                    peer_subs[m][key][j] =
                        [mask |-> local_subs[n][key][i].mask,
                         value |-> local_subs[n][key][i].value,
                         peer |-> peers[m][n]]

\* C36: an entry leaves the peers index, or is replaced, only in a step
\* that takes the very connection it holds down: a drop_peer for any other
\* connection of the ident leaves the stored connection in the index.
C36_DropKeepsStoredWinner ==
    [][\A n \in Nodes, m \in Nodes :
        (peers[n][m] # NoConn /\ peers'[n][m] # peers[n][m])
            => conn_state'[peers[n][m]] = "down"]_vars

\* hub A takes a well-formed singular PROXY_REQUEST of client K off the
\* queue while more than one target matches it
SelectsForProxy ==
    /\ Receives("A", "K", "PROXY_REQUEST")
    /\ chan'[<<"K", "A">>] = Tail(chan[<<"K", "A">>])
    /\ LET q == Head(chan[<<"K", "A">>])
       IN /\ q.arity = 7
          /\ q.singular
          /\ Cardinality(MatchingPeers("A", MSG_TYPE_RPC_REQUEST, q.service,
                                       q.routing_id))
                + (IF HasHandler("A", MSG_TYPE_RPC_REQUEST, q.service,
                                 q.routing_id, q.method) THEN 1 ELSE 0) > 1

\* the number of RPC_REQUEST messages a step of hub A appends for its peers
Forwarded ==
    LET Requests(m) == SelectSeq(Appended("A", m), LAMBDA x : x.type = "RPC_REQUEST")
    IN Len(Requests("B")) + Len(Requests("C"))

\* C37: when hub A handles a singular PROXY_REQUEST with more than one
\* matching target, exactly one target services it, whatever select_peer
\* chooses among the candidates it is offered: either one peer is sent the
\* RPC_REQUEST or A's own handler of the method, which then exists, is run
\* or scheduled; and the count declared to the client is 1.
C37_SingularProxyOneTarget ==
    [][SelectsForProxy =>
        LET q == Head(chan[<<"K", "A">>])
            local == (Len(handled') - Len(handled))
                        + (Len(sched'["A"]) - Len(sched["A"]))
        IN /\ Forwarded + local = 1
           /\ local = 1 => HasHandler("A", MSG_TYPE_RPC_REQUEST, q.service,
                                      q.routing_id, q.method)
           /\ \E i \in 1..Len(Appended("A", "K")) :
                Appended("A", "K")[i] =
                    [type |-> "PROXY_RESPONSE_COUNT", arity |-> 2,
                     counter |-> q.counter, target_count |-> 1]]_vars

\* every in-flight proxy record of hub A awaits at least one response, as
\* many as idents are awaited in the in-flight record of its counter
AwaitingMatches ==
    \A c \in DOMAIN inflight_proxies["A"] :
        /\ inflight_proxies["A"][c].awaiting >= 1
        /\ c \in DOMAIN inflight["A"]
        /\ inflight_proxies["A"][c].awaiting = Cardinality(inflight["A"][c])

\* a proxy record of hub A is deleted in the step that empties the awaited
\* set of its counter, and in no other
DeletedWhenEmpty ==
    \A c \in DOMAIN inflight_proxies["A"] :
        (c \notin DOMAIN inflight_proxies'["A"])
            = (c \notin DOMAIN inflight'["A"] \/ inflight'["A"][c] = {})

\* C38: in every reachable state of the proxying hub A each in-flight proxy
\* record has awaiting >= 1 and awaiting equals the number of idents still
\* awaited for its counter, and the record is deleted exactly when that set
\* becomes empty.
C38_ProxyAwaiting == []AwaitingMatches /\ [][DeletedWhenEmpty]_vars

\* C39: once a future of hub A's RPC client or of client K's proxied client
\* is complete, no step delivers a further result to it and none completes
\* it a second time.
C39_CompletionTerminal ==
    [][\A n \in {"A", "K"} : \A c \in DOMAIN rpcs[n] :
        (rpcs[n][c].complete /\ c \in DOMAIN rpcs'[n]) =>
            /\ rpcs'[n][c].results = rpcs[n][c].results
            /\ rpcs'[n][c].completions = rpcs[n][c].completions
            /\ rpcs'[n][c].complete]_vars

\* the handle w of hub A is on the wait list of the future c
Attached(rs, w, c) == \E i \in 1..Len(rs[c].waits) : rs[c].waits[i] = w

\* C40: when a Wait handle finishes it is on the wait list of no live
\* future afterwards, also of none attached or replaced through transfer;
\* and when a future completes that a handle was transferred to, the handle
\* finishes and reports the future it was transferred from.
C40_FinishDetachesTransferred ==
    [][\A w \in 1..Len(waits["A"]) :
        /\ (~waits["A"][w].finished /\ waits'["A"][w].finished) =>
                \A c \in DOMAIN rpcs'["A"] : ~Attached(rpcs'["A"], w, c)
        /\ \A t \in DOMAIN waits["A"][w].transfers :
            (/\ ~waits["A"][w].finished
             /\ t \in DOMAIN rpcs["A"] /\ ~rpcs["A"][t].complete
             /\ t \in DOMAIN rpcs'["A"] /\ rpcs'["A"][t].complete) =>
                /\ waits'["A"][w].finished
                /\ waits'["A"][w].done
                /\ waits'["A"][w].completed_rpc = waits["A"][w].transfers[t]]_vars

====
